---- MODULE Spec2Model ----
(***************************************************************************)
(* A model of FinGuard's event-driven core: the stream hub                 *)
(* (internal/stream/hub.go), the collection scheduler                      *)
(* (internal/collector/scheduler.go) and the plugin manager                *)
(* (internal/plugin/manager.go).  Each subsystem has its own               *)
(* specification (SpecHub, SpecSched, SpecPlugin) over one shared set of   *)
(* variables; a specification leaves the other subsystems' variables       *)
(* unchanged.                                                              *)
(***************************************************************************)
EXTENDS Integers, Sequences, FiniteSets, TLC

(***************************************************************************)
(* Bounds of the model.                                                    *)
(***************************************************************************)
\* capacity of a client's outbound queue; stands for make(chan []byte, 256)
QueueCap == 2

\* last reading of the clock
MaxTime == 1

\* goroutines that call into the hub concurrently
Procs == {"g1", "g2"}
\* topics events are published under and clients subscribe to
Topics == {"cost.collection", "budget.warning"}

\* goroutines that call into the plugin manager concurrently
MProcs == {"m1", "m2"}
\* plugin instances handed to Manager.Register; cb1 and cb2 report one name
Insts == {"cb1", "cb2", "bg1"}
\* the timestamps the plugins' events carry, in the order of emission
Stamps == {1, 2}
\* the InitializeAll calls of one behaviour
InitAllCalls == {1}
\* the InitializeAll calls of a behaviour that repeats the call
RepeatedInitAllCalls == {1, 2}

\* the clients Register may allocate in one behaviour, in this order
ClientIds == {1, 2}

VARIABLES
    \* ---- stream.Hub ----
    clients,      \* h.clients: the live set
    created,      \* number of clients Register has allocated so far
    topics,       \* c.topics, per client
    send,         \* c.send: the buffered channel's contents, per client
    sendClosed,   \* whether c.send has been closed
    closedOnce,   \* c.closed (sync.Once): whether Do has run
    cancelCalls,  \* how many times c.cancel() has been called
    existedCalls, \* how many Unregister calls found the client present
    readers,      \* goroutines holding h.mu.RLock
    proc,         \* per goroutine: the hub call it is executing
    hubPanic      \* a send on, or a close of, a closed channel happened

VARIABLES
    \* ---- collector.Scheduler and the store it uses ----
    now,          \* the wall clock, in hours
    cursor,       \* cost_sources.last_collected_at, per source
    pass,         \* per collection pass (a goroutine): where it is
    running,      \* s.running
    loop,         \* the Start loop: "none", "looping" or "returned"
    ctxDone,      \* the context given to Start is cancelled
    launched,     \* number of passes launched so far
    starts        \* per Start call, when several are told apart: where it is

VARIABLES
    \* ---- plugin.Manager and the plugins it holds ----
    plugins,        \* m.plugins: name -> registeredPlugin
    mreaders,       \* goroutines holding m.mu.RLock
    mproc,          \* per goroutine: the manager call it is executing
    bridges,        \* the bridgeEvents goroutines, in the order they started
    initCtxDone,    \* the context given to InitializeAll is cancelled
    pevents,        \* p.events: the plugin's channel contents, per instance
    peventsClosed,  \* whether p.events has been closed
    emitted,        \* number of events the plugins have emitted so far
    bridged,        \* the events the bridges handed to Hub.Publish, in order
    initOk,         \* instances whose Initialize has returned nil
    initAllStarted, \* number of InitializeAll calls so far
    plugPanic,      \* a send on, or a close of, a closed plugin channel
    poll            \* per instance: where its pollLoop goroutine is

VARIABLES
    \* ---- the plugin routes on the HTTP router ----
    router,         \* the handlers MountRoutes has put on the chi router
    mountCalls,     \* number of MountRoutes calls so far
    httpReq,        \* the last request served
    executed,       \* the Execute call that request led to
    execOut,        \* what that Execute call returned
    httpResp        \* the response written for that request

VARIABLES
    \* ---- the history of numbered Publish calls ----
    pubCalls,       \* per numbered call, in the order the calls started:
                    \* its topic and the calls that had returned by then
    pubReturned,    \* the numbered calls that have returned
    dequeued        \* per client: the messages its write pump has received

VARIABLES
    \* ---- Client.Subscribe as a call that takes time ----
    writing         \* per client: the topics the Subscribe call in progress
                    \* is writing into c.topics, {} when there is none

VARIABLES
    \* ---- Server.handleStream, one connection per client ----
    stream          \* per client: the goroutine that runs its handleStream
                    \* and where it is, its connection, its read pump

hubVars == <<clients, created, topics, send, sendClosed, closedOnce,
             cancelCalls, existedCalls, readers, proc, hubPanic>>

schedVars == <<now, cursor, pass, running, loop, ctxDone, launched, starts>>

plugVars == <<plugins, mreaders, mproc, bridges, initCtxDone, pevents,
              peventsClosed, emitted, bridged, initOk, initAllStarted,
              plugPanic, poll>>

httpVars == <<router, mountCalls, httpReq, executed, execOut, httpResp>>

logVars == <<pubCalls, pubReturned, dequeued>>

vars == <<hubVars, schedVars, plugVars, httpVars, logVars, writing, stream>>

\* what a step of one subsystem leaves alone
notHub == <<schedVars, plugVars, httpVars, logVars, writing, stream>>
notSched == <<hubVars, plugVars, httpVars, logVars, writing, stream>>
notPlugin == <<hubVars, schedVars, httpVars, logVars, writing, stream>>
notHttp == <<hubVars, schedVars, plugVars, logVars, writing, stream>>
\* what a step of a stream handler or of its pumps leaves alone besides the hub
notHubNorStream == <<schedVars, plugVars, httpVars, logVars, writing>>

(***************************************************************************)
(* Events and their serialization.                                         *)
(***************************************************************************)
\* event.Event as far as the hub reads it; payload "bad" is a RawMessage
\* that is not valid JSON, which json.Marshal rejects.
HubEvents == [type : {"test"}, topic : Topics, payload : {"{}", "bad"}]

MarshalUnchecked(e) ==
    [err |-> FALSE, data |-> <<"json", e.type, e.topic, e.payload>>]

\* json.Marshal(e): an error, or the bytes of the JSON object.
Marshal(e) ==
    IF e.payload = "bad"
    THEN [err |-> TRUE, data |-> <<>>]
    ELSE [err |-> FALSE, data |-> <<"json", e.type, e.topic, e.payload>>]

\* the topic a serialized message carries
MsgTopic(m) == m[3]

NoEvent == [type |-> "", topic |-> "", payload |-> ""]

\* a goroutine that is in no hub call
Idle == [op |-> "idle", pc |-> "idle", e |-> NoEvent, data |-> <<>>,
         todo |-> {}, c |-> 0, existed |-> FALSE]

(***************************************************************************)
(* Client.subscribedTo                                                     *)
(***************************************************************************)
subscribedToAlways(c, topic) == TRUE

subscribedTo(c, topic) ==
    IF topics[c] = {} THEN TRUE ELSE topic \in topics[c]

(***************************************************************************)
(* NewHub                                                                  *)
(***************************************************************************)
HubInit ==
    /\ clients = {}
    /\ created = 0
    /\ topics = [c \in ClientIds |-> {}]
    /\ send = [c \in ClientIds |-> <<>>]
    /\ sendClosed = [c \in ClientIds |-> FALSE]
    /\ closedOnce = [c \in ClientIds |-> FALSE]
    /\ cancelCalls = [c \in ClientIds |-> 0]
    /\ existedCalls = [c \in ClientIds |-> 0]
    /\ readers = {}
    /\ proc = [p \in Procs |-> Idle]
    /\ hubPanic = FALSE

WriteLockIgnoresReaders == TRUE

\* h.mu.Lock() can be taken: no Publish or Broadcast loop holds the read
\* lock (the sections under the write lock are single steps)
WriteLockFree == readers = {}

(***************************************************************************)
(* Hub.Register: allocates a client with an empty filter and an empty      *)
(* queue and adds it to the live set under h.mu.Lock.                      *)
(***************************************************************************)
RegisterCall(p) ==
    /\ proc[p].op = "idle"
    /\ ~hubPanic
    /\ created < Cardinality(ClientIds)
    /\ WriteLockFree
    /\ LET c == created + 1 IN
        /\ created' = c
        /\ clients' = clients \cup {c}
        /\ topics' = [topics EXCEPT ![c] = {}]
        /\ send' = [send EXCEPT ![c] = <<>>]
    /\ UNCHANGED <<sendClosed, closedOnce, cancelCalls, existedCalls,
                   readers, proc, hubPanic>>

Register(p) ==
    /\ RegisterCall(p)
    /\ UNCHANGED notHub

(***************************************************************************)
(* Hub.Unregister, in two steps: the section under h.mu.Lock, which reads  *)
(* and deletes the map entry, and the rest: return if the client was       *)
(* absent, else c.cancel() followed by c.closed.Do(close(c.send)).  No     *)
(* goroutine of the hub reads the context between the cancel and the close.*)
(***************************************************************************)
UnregisterExistedAlways(c) == TRUE

UnregisterExisted(c) == c \in clients

UnregisterLockedCall(p, c) ==
    /\ proc[p].op = "idle"
    /\ ~hubPanic
    /\ c \in 1..created
    /\ WriteLockFree
    /\ LET existed == UnregisterExisted(c) IN
        /\ clients' = clients \ {c}
        /\ existedCalls' = [existedCalls EXCEPT
                              ![c] = IF existed THEN @ + 1 ELSE @]
        /\ proc' = [proc EXCEPT ![p] =
                      [Idle EXCEPT !.op = "unregister", !.pc = "unlocked",
                                   !.c = c, !.existed = existed]]
    /\ UNCHANGED <<created, topics, send, sendClosed, closedOnce,
                   cancelCalls, readers, hubPanic>>

UnregisterLocked(p, c) ==
    /\ UnregisterLockedCall(p, c)
    /\ UNCHANGED notHub

UnregisterFinishCall(p) ==
    /\ proc[p].op = "unregister"
    /\ proc[p].pc = "unlocked"
    /\ ~hubPanic
    /\ LET c == proc[p].c IN
        IF ~proc[p].existed
        THEN UNCHANGED <<cancelCalls, closedOnce, sendClosed, hubPanic>>
        ELSE /\ cancelCalls' = [cancelCalls EXCEPT ![c] = @ + 1]
             /\ IF closedOnce[c]
                THEN UNCHANGED <<closedOnce, sendClosed, hubPanic>>
                ELSE /\ closedOnce' = [closedOnce EXCEPT ![c] = TRUE]
                     /\ sendClosed' = [sendClosed EXCEPT ![c] = TRUE]
                     /\ hubPanic' = sendClosed[c]
    /\ proc' = [proc EXCEPT ![p] = Idle]
    /\ UNCHANGED <<clients, created, topics, send, existedCalls, readers>>

UnregisterFinish(p) ==
    /\ UnregisterFinishCall(p)
    /\ UNCHANGED notHub

HubLenEverRegistered == created

\* Hub.Len: len(h.clients) under h.mu.RLock
HubLen == Cardinality(clients)

(***************************************************************************)
(* Hub.Publish and Hub.Broadcast: serialize, take the read lock, visit     *)
(* every live client in the map's (arbitrary) order, release the lock.     *)
(* The deferred RUnlock runs with the last iteration of the loop (or at    *)
(* once when the map is empty).                                            *)
(***************************************************************************)
DeliversFiltered(op, c, topic) == subscribedTo(c, topic)

\* whether the loop body enqueues for client c: Publish filters by topic,
\* Broadcast does not.
Delivers(op, c, topic) ==
    IF op = "publish" THEN subscribedTo(c, topic) ELSE TRUE

\* select { case c.send <- data: default: }: the queue after the attempt
TrySendEvictOldest(q, data) ==
    IF Len(q) < QueueCap THEN Append(q, data) ELSE Append(Tail(q), data)

TrySendAtHead(q, data) ==
    IF Len(q) < QueueCap THEN <<data>> \o q ELSE q

TrySend(q, data) ==
    IF Len(q) < QueueCap THEN Append(q, data) ELSE q

\* the call as the hub sees it, whoever the calling goroutine p is
PublishCall(p, op, e) ==
    /\ proc[p].op = "idle"
    /\ ~hubPanic
    /\ LET m == Marshal(e) IN
        IF m.err \/ clients = {}
        THEN UNCHANGED <<proc, readers>>
        ELSE /\ readers' = readers \cup {p}
             /\ proc' = [proc EXCEPT ![p] =
                           [Idle EXCEPT !.op = op, !.pc = "loop", !.e = e,
                                        !.data = m.data, !.todo = clients]]
    /\ UNCHANGED <<clients, created, topics, send, sendClosed, closedOnce,
                   cancelCalls, existedCalls, hubPanic>>

PublishBegin(p, op, e) ==
    /\ PublishCall(p, op, e)
    /\ UNCHANGED notHub

\* one iteration of the loop as the hub sees it
PublishVisitCall(p, c) ==
    /\ proc[p].op \in {"publish", "broadcast"}
    /\ proc[p].pc = "loop"
    /\ ~hubPanic
    /\ c \in proc[p].todo
    /\ IF proc[p].todo = {c}
       THEN /\ proc' = [proc EXCEPT ![p] = Idle]
            /\ readers' = readers \ {p}
       ELSE /\ proc' = [proc EXCEPT ![p].todo = @ \ {c}]
            /\ UNCHANGED readers
    /\ IF Delivers(proc[p].op, c, proc[p].e.topic)
       THEN IF sendClosed[c]
            THEN /\ hubPanic' = TRUE
                 /\ UNCHANGED send
            ELSE /\ send' = [send EXCEPT ![c] = TrySend(@, proc[p].data)]
                 /\ UNCHANGED hubPanic
       ELSE UNCHANGED <<send, hubPanic>>
    /\ UNCHANGED <<clients, created, topics, sendClosed, closedOnce,
                   cancelCalls, existedCalls>>

PublishVisit(p, c) ==
    /\ PublishVisitCall(p, c)
    /\ UNCHANGED notHub

(***************************************************************************)
(* Client.Subscribe, called by the client's read pump.  The pump's Read    *)
(* takes the client's context, so it delivers no message once that context *)
(* is cancelled.                                                           *)
(***************************************************************************)
SubscribeTopicsReplace(old, ts) == ts

\* c.topics after the loop `for _, t := range topics { c.topics[t] = ... }`
SubscribeTopics(old, ts) == old \cup ts

Subscribe(c, ts) ==
    /\ c \in 1..created
    /\ cancelCalls[c] = 0
    /\ ~hubPanic
    /\ topics' = [topics EXCEPT ![c] = SubscribeTopics(@, ts)]
    /\ UNCHANGED <<clients, created, send, sendClosed, closedOnce,
                   cancelCalls, existedCalls, readers, proc, hubPanic>>
    /\ UNCHANGED notHub

(***************************************************************************)
(* The write pump's receive from c.Send(), followed while the client's     *)
(* context is not cancelled.                                               *)
(***************************************************************************)
WritePumpDequeue(c) ==
    /\ c \in 1..created
    /\ cancelCalls[c] = 0
    /\ ~hubPanic
    /\ send[c] # <<>>
    /\ send' = [send EXCEPT ![c] = Tail(@)]
    /\ UNCHANGED <<clients, created, topics, sendClosed, closedOnce,
                   cancelCalls, existedCalls, readers, proc, hubPanic>>

WritePumpRecv(c) ==
    /\ WritePumpDequeue(c)
    /\ UNCHANGED notHub

HubNext ==
    \/ \E p \in Procs : Register(p)
    \/ \E p \in Procs, c \in ClientIds : UnregisterLocked(p, c)
    \/ \E p \in Procs : UnregisterFinish(p)
    \/ \E p \in Procs, op \in {"publish", "broadcast"}, e \in HubEvents :
          PublishBegin(p, op, e)
    \/ \E p \in Procs, c \in ClientIds : PublishVisit(p, c)
    \/ \E c \in ClientIds, ts \in SUBSET Topics : Subscribe(c, ts)
    \/ \E c \in ClientIds : WritePumpRecv(c)

(***************************************************************************)
(* The collection scheduler.                                               *)
(***************************************************************************)
\* the -24 * time.Hour lookback of a never-collected source, in hours
Day == 24

CostSourceAWS == "aws_account"
CostSourceAzure == "azure_subscription"
CostSourceGCP == "gcp_project"
CostSourceKubernetes == "kubernetes"
CostSourcePlugin == "plugin"

\* what the store holds: the projects in the order ListProjects returns
\* them, and the cost sources in the order ListCostSources returns them
ProjectOrder == <<"p1", "p2">>
Projects == {"p1", "p2"}
SourceOrder == <<"s1", "s2", "s3", "s4", "s5">>
SourceIds == {"s1", "s2", "s3", "s4", "s5"}
SourceConf ==
    [s1 |-> [project |-> "p1", type |-> CostSourceAWS, name |-> "aws-prod",
             enabled |-> TRUE],
     s2 |-> [project |-> "p1", type |-> CostSourceKubernetes,
             name |-> "k8s-old", enabled |-> FALSE],
     s3 |-> [project |-> "p2", type |-> CostSourceKubernetes,
             name |-> "k8s-main", enabled |-> TRUE],
     s4 |-> [project |-> "p2", type |-> CostSourcePlugin, name |-> "ext",
             enabled |-> TRUE],
     s5 |-> [project |-> "p2", type |-> CostSourceGCP, name |-> "gcp-off",
             enabled |-> FALSE]]

\* CostSource.LastCollectedAt, a *time.Time: nil, or a time
Nil == [set |-> FALSE, t |-> 0]
At(t) == [set |-> TRUE, t |-> t]

\* the sizes of the record sets a Collect call may return
RecordCounts == {0, 2}

\* the passes one Start loop launches in one behaviour, in this order
PassIds == {1, 2}

\* the Start calls made on the one Scheduler, when several are told apart
StartCalls == {1, 2}

\* the types main registers a collector for
RegisteredTypes ==
    {CostSourceAWS, CostSourceAzure, CostSourceGCP, CostSourceKubernetes}

RegistryHasAny(type) == TRUE

\* Registry.Get: whether a collector is registered for the type
RegistryHas(type) == type \in RegisteredTypes

TypeSetOfCspTick(kind) == {CostSourceAWS, CostSourceAzure, CostSourceGCP}

\* the types a pass of the given kind collects: the CSP tick, the
\* Kubernetes tick, and the initial pass, which does not look at the type
TypeSet(kind) ==
    IF kind = "csp" THEN {CostSourceAWS, CostSourceAzure, CostSourceGCP}
    ELSE IF kind = "k8s" THEN {CostSourceKubernetes}
    ELSE {CostSourceAWS, CostSourceAzure, CostSourceGCP,
          CostSourceKubernetes, CostSourcePlugin}

\* the loop's test before it calls collectSource
PassesFilterIgnoringEnabled(kind, id) ==
    SourceConf[id].type \in TypeSet(kind)

PassesFilter(kind, id) ==
    SourceConf[id].enabled /\ SourceConf[id].type \in TypeSet(kind)

\* strconv.Itoa
Itoa(n) == ToString(n)

\* event.New(eventType, "cost.collection", sourceName, payload), with the
\* payload map as a set of key/value pairs
NewEvent(eventType, sourceName, payload) ==
    [type |-> eventType, topic |-> "cost.collection", source |-> sourceName,
     payload |-> payload]

FailedEvent(id) ==
    NewEvent("collection.failed", SourceConf[id].name,
             {<<"sourceId", id>>, <<"error", "collect failed">>})

CompleteEvent(id, n) ==
    NewEvent("collection.complete", SourceConf[id].name,
             {<<"sourceId", id>>, <<"records", Itoa(n)>>})

\* main constructs the scheduler with the hub (s.hub is not nil)
HubPresent == TRUE

\* Scheduler.publishEvent: the events handed to Hub.Publish so far
publishEvent(events, e) ==
    IF ~HubPresent THEN events ELSE Append(events, e)

\* ListCostSources(project): the project's sources with their cursors
RECURSIVE Snapshot(_, _)
Snapshot(project, order) ==
    IF order = <<>> THEN <<>>
    ELSE IF SourceConf[Head(order)].project = project
         THEN <<[id |-> Head(order), last |-> cursor[Head(order)]]>>
                  \o Snapshot(project, Tail(order))
         ELSE Snapshot(project, Tail(order))

WindowOfLookbackOnly(last, t) == [start |-> t - Day, end |-> t]

\* the window of an attempt made when the clock reads t
WindowOf(last, t) ==
    [start |-> IF last # Nil THEN last.t ELSE t - Day, end |-> t]

NoWindow == [start |-> 0, end |-> 0]

\* a pass: its kind, its position, the projects and the listed sources it
\* has still to go through, the locals of the collectSource call it is in
\* (win, n, at, res, events: the window, the size of the record set, the
\* time read for the cursor when the read and the store's write are told
\* apart, how the call went and what it published), and, for the pass as a
\* whole, the
\* projects whose listing failed, the sources Collect was called on, the
\* sources found without a collector, the sources whose attempt met an
\* error and the batches it persisted
NoPass == [kind |-> "none", pc |-> "idle", listOk |-> FALSE, projs |-> <<>>,
           failed |-> {}, srcs |-> <<>>, win |-> NoWindow, n |-> 0,
           at |-> 0, res |-> "", events |-> <<>>, collected |-> <<>>,
           nocoll |-> {},
           errs |-> {}, stored |-> {}]

\* NewScheduler, over a store with one source never collected and one last
\* collected an hour before the clock's first reading
SchedInit ==
    /\ now = 0
    /\ cursor = [id \in SourceIds |-> IF id = "s3" THEN At(-1) ELSE Nil]
    /\ pass = [p \in PassIds |-> NoPass]
    /\ running = FALSE
    /\ loop = "none"
    /\ ctxDone = FALSE
    /\ launched = 0
    /\ starts = [c \in StartCalls |-> "none"]

\* go s.collectAll(ctx) / go s.collectByTypes(ctx, ...)
Launch(kind) ==
    /\ launched' = launched + 1
    /\ pass' = [pass EXCEPT ![launched + 1] =
                  [NoPass EXCEPT !.kind = kind, !.pc = "listProjects"]]

\* Scheduler.Start up to its loop: returns at once when already running,
\* else sets the flag, creates the tickers and launches the initial pass
Start ==
    /\ IF running
       THEN UNCHANGED <<running, loop, launched, pass>>
       ELSE /\ running' = TRUE
            /\ loop' = "looping"
            /\ Launch("all")
    /\ UNCHANGED <<now, cursor, ctxDone>>
    /\ UNCHANGED <<starts, notSched>>

\* case <-cspTicker.C
CspTick ==
    /\ loop = "looping"
    /\ launched < Cardinality(PassIds)
    /\ Launch("csp")
    /\ UNCHANGED <<now, cursor, running, loop, ctxDone>>
    /\ UNCHANGED <<starts, notSched>>

\* case <-k8sTicker.C
K8sTick ==
    /\ loop = "looping"
    /\ launched < Cardinality(PassIds)
    /\ Launch("k8s")
    /\ UNCHANGED <<now, cursor, running, loop, ctxDone>>
    /\ UNCHANGED <<starts, notSched>>

\* the caller cancels the context
CancelCtx ==
    /\ ~ctxDone
    /\ ctxDone' = TRUE
    /\ UNCHANGED <<now, cursor, pass, running, loop, launched>>
    /\ UNCHANGED <<starts, notSched>>

AfterCtxDoneKeepLooping == "looping"

\* where the case <-ctx.Done() of Start's select leaves the loop: return
AfterCtxDone == "returned"

\* case <-ctx.Done(): return
LoopReturn ==
    /\ loop = "looping"
    /\ ctxDone
    /\ loop' = AfterCtxDone
    /\ UNCHANGED <<now, cursor, pass, running, ctxDone, launched>>
    /\ UNCHANGED <<starts, notSched>>

\* time passes
ClockTick ==
    /\ now < MaxTime
    /\ now' = now + 1
    /\ UNCHANGED <<cursor, pass, running, loop, ctxDone, launched>>
    /\ UNCHANGED <<starts, notSched>>

\* s.store.ListProjects, first statement of collectAll and collectByTypes
PassListProjects(p) ==
    /\ pass[p].pc = "listProjects"
    /\ \/ pass' = [pass EXCEPT ![p].pc = "done"]
       \/ pass' = [pass EXCEPT ![p].pc = "listSources", ![p].listOk = TRUE,
                               ![p].projs = ProjectOrder]
    /\ UNCHANGED <<now, cursor, running, loop, ctxDone, launched>>
    /\ UNCHANGED <<starts, notSched>>

\* the projects left after ListCostSources failed for the first of them:
\* collectByTypes continues, collectForProject returns to collectAll's loop
AfterListSourcesErrAbort(projs) == <<>>

AfterListSourcesErr(projs) == Tail(projs)

\* s.store.ListCostSources for the next project, or the end of the pass
PassListSources(p) ==
    /\ pass[p].pc = "listSources"
    /\ IF pass[p].projs = <<>>
       THEN pass' = [pass EXCEPT ![p].pc = "done"]
       ELSE \/ pass' = [pass EXCEPT
                          ![p].failed = @ \cup {Head(pass[p].projs)},
                          ![p].projs = AfterListSourcesErr(@)]
            \/ pass' = [pass EXCEPT
                          ![p].pc = "sources",
                          ![p].srcs = Snapshot(Head(pass[p].projs),
                                               SourceOrder)]
    /\ UNCHANGED <<now, cursor, running, loop, ctxDone, launched>>
    /\ UNCHANGED <<starts, notSched>>

\* one iteration of the loop over a project's sources: skip the source, or
\* call collectSource, which returns at once without a collector and else
\* computes the window and calls Collect
PassNextSource(p) ==
    /\ pass[p].pc = "sources"
    /\ IF pass[p].srcs = <<>>
       THEN pass' = [pass EXCEPT ![p].pc = "listSources",
                                 ![p].projs = Tail(@)]
       ELSE LET src == Head(pass[p].srcs) IN
            IF ~PassesFilter(pass[p].kind, src.id)
            THEN pass' = [pass EXCEPT ![p].srcs = Tail(@)]
            ELSE IF ~RegistryHas(SourceConf[src.id].type)
            THEN pass' = [pass EXCEPT ![p].srcs = Tail(@),
                                      ![p].nocoll = @ \cup {src.id}]
            ELSE pass' = [pass EXCEPT
                            ![p].pc = "collect",
                            ![p].win = WindowOf(src.last, now),
                            ![p].collected = Append(@, src.id)]
    /\ UNCHANGED <<now, cursor, running, loop, ctxDone, launched>>
    /\ UNCHANGED <<starts, notSched>>

\* where collectSource goes once Collect returned n records
AfterCollect(n) == IF n > 0 THEN "insert" ELSE "update"

\* where collectSource goes once Collect returned an error and the
\* collection.failed event is published: it returns
AfterCollectErrFallThrough == "update"

AfterCollectErr == "returned"

\* collector.Collect returns: an error, which is published and ends the
\* call, or a record set
PassCollectReturn(p) ==
    /\ pass[p].pc = "collect"
    /\ LET id == Head(pass[p].srcs).id IN
        \/ pass' = [pass EXCEPT
                      ![p].pc = AfterCollectErr,
                      ![p].res = "collectErr",
                      ![p].errs = @ \cup {id},
                      ![p].events = publishEvent(@, FailedEvent(id))]
        \/ \E n \in RecordCounts :
              pass' = [pass EXCEPT ![p].pc = AfterCollect(n), ![p].n = n,
                                   ![p].res = "collected"]
    /\ UNCHANGED <<now, cursor, running, loop, ctxDone, launched>>
    /\ UNCHANGED <<starts, notSched>>

\* where collectSource goes after InsertCostRecords
AfterInsertNoReturn(ok) == "update"

AfterInsert(ok) == IF ok THEN "update" ELSE "returned"

\* s.store.InsertCostRecords(ctx, records)
PassInsert(p) ==
    /\ pass[p].pc = "insert"
    /\ LET id == Head(pass[p].srcs).id IN
        \/ pass' = [pass EXCEPT ![p].pc = AfterInsert(TRUE),
                                ![p].res = "inserted",
                                ![p].stored = @ \cup {id}]
        \/ pass' = [pass EXCEPT ![p].pc = AfterInsert(FALSE),
                                ![p].res = "insertErr",
                                ![p].errs = @ \cup {id}]
    /\ UNCHANGED <<now, cursor, running, loop, ctxDone, launched>>
    /\ UNCHANGED <<starts, notSched>>

\* the time UpdateCostSourceCollectedAt is given
CollectedAtWindowEnd(win, t) == win.end

CollectedAt(win, t) == t

UpdateErrEventsNone(events, id, n) == events

\* what the attempt has published when UpdateCostSourceCollectedAt failed:
\* the failure is logged and the collection.complete event follows
UpdateErrEvents(events, id, n) == publishEvent(events, CompleteEvent(id, n))

\* s.store.UpdateCostSourceCollectedAt(ctx, source.ID, time.Now().UTC()),
\* whose failure is only logged, then the collection.complete event
PassUpdate(p) ==
    /\ pass[p].pc = "update"
    /\ LET id == Head(pass[p].srcs).id IN
        \/ /\ cursor' = [cursor EXCEPT
                           ![id] = At(CollectedAt(pass[p].win, now))]
           /\ pass' = [pass EXCEPT
                         ![p].pc = "returned",
                         ![p].res = "updated",
                         ![p].events =
                             publishEvent(@, CompleteEvent(id, pass[p].n))]
        \/ /\ UNCHANGED cursor
           /\ pass' = [pass EXCEPT
                         ![p].pc = "returned",
                         ![p].res = "updateErr",
                         ![p].errs = @ \cup {id},
                         ![p].events = UpdateErrEvents(@, id, pass[p].n)]
    /\ UNCHANGED <<now, running, loop, ctxDone, launched>>
    /\ UNCHANGED <<starts, notSched>>

\* PassUpdate in two steps, for what depends on other passes running between
\* them.  First the argument time.Now().UTC() of the call is evaluated,
PassUpdateNow(p) ==
    /\ pass[p].pc = "update"
    /\ pass' = [pass EXCEPT ![p].pc = "write", ![p].at = now]
    /\ UNCHANGED <<now, cursor, running, loop, ctxDone, launched>>
    /\ UNCHANGED <<starts, notSched>>

\* then the store runs UPDATE cost_sources SET last_collected_at = ? with
\* that time, whatever the row holds, or fails; the collection.complete
\* event follows either way
PassUpdateWrite(p) ==
    /\ pass[p].pc = "write"
    /\ LET id == Head(pass[p].srcs).id IN
        \/ /\ cursor' = [cursor EXCEPT ![id] = At(pass[p].at)]
           /\ pass' = [pass EXCEPT
                         ![p].pc = "returned",
                         ![p].res = "updated",
                         ![p].events =
                             publishEvent(@, CompleteEvent(id, pass[p].n))]
        \/ /\ UNCHANGED cursor
           /\ pass' = [pass EXCEPT
                         ![p].pc = "returned",
                         ![p].res = "updateErr",
                         ![p].errs = @ \cup {id},
                         ![p].events =
                             publishEvent(@, CompleteEvent(id, pass[p].n))]
    /\ UNCHANGED <<now, running, loop, ctxDone, launched>>
    /\ UNCHANGED <<starts, notSched>>

\* collectSource returns and the loop moves to the next source
PassReturn(p) ==
    /\ pass[p].pc = "returned"
    /\ pass' = [pass EXCEPT ![p].pc = "sources", ![p].srcs = Tail(@),
                            ![p].win = NoWindow, ![p].n = 0, ![p].at = 0,
                            ![p].res = "", ![p].events = <<>>]
    /\ UNCHANGED <<now, cursor, running, loop, ctxDone, launched>>
    /\ UNCHANGED <<starts, notSched>>

\* the pass's goroutine ends
PassExit(p) ==
    /\ pass[p].pc = "done"
    /\ pass' = [pass EXCEPT ![p] = NoPass]
    /\ UNCHANGED <<now, cursor, running, loop, ctxDone, launched>>
    /\ UNCHANGED <<starts, notSched>>

SchedNext ==
    \/ Start
    \/ CspTick
    \/ K8sTick
    \/ CancelCtx
    \/ LoopReturn
    \/ ClockTick
    \/ \E p \in PassIds : PassListProjects(p)
    \/ \E p \in PassIds : PassListSources(p)
    \/ \E p \in PassIds : PassNextSource(p)
    \/ \E p \in PassIds : PassCollectReturn(p)
    \/ \E p \in PassIds : PassInsert(p)
    \/ \E p \in PassIds : PassUpdate(p)
    \/ \E p \in PassIds : PassReturn(p)
    \/ \E p \in PassIds : PassExit(p)

AlreadyRunningNever == FALSE

\* the test `if s.running` Start makes under s.mu
AlreadyRunning == running

\* Start as one of several calls.  Its first section, under s.mu: return
\* when the flag is set, else set it
StartEnter(c) ==
    /\ starts[c] = "none"
    /\ IF AlreadyRunning
       THEN /\ starts' = [starts EXCEPT ![c] = "returned"]
            /\ UNCHANGED running
       ELSE /\ starts' = [starts EXCEPT ![c] = "entered"]
            /\ running' = TRUE
    /\ UNCHANGED <<now, cursor, pass, loop, ctxDone, launched>>
    /\ UNCHANGED notSched

\* the call creates its tickers, launches the initial pass and enters its
\* loop
StartLaunch(c) ==
    /\ starts[c] = "entered"
    /\ launched < Cardinality(PassIds)
    /\ starts' = [starts EXCEPT ![c] = "looping"]
    /\ Launch("all")
    /\ UNCHANGED <<now, cursor, running, loop, ctxDone>>
    /\ UNCHANGED notSched

\* a ticker of the call's loop fires
StartTick(c, kind) ==
    /\ starts[c] = "looping"
    /\ launched < Cardinality(PassIds)
    /\ Launch(kind)
    /\ UNCHANGED <<now, cursor, running, loop, ctxDone, starts>>
    /\ UNCHANGED notSched

\* case <-ctx.Done() in the call's loop
StartReturn(c) ==
    /\ starts[c] = "looping"
    /\ ctxDone
    /\ starts' = [starts EXCEPT ![c] = "stopped"]
    /\ UNCHANGED <<now, cursor, pass, running, loop, ctxDone, launched>>
    /\ UNCHANGED notSched

\* several Start calls on one Scheduler, with the passes they launch
StartNext ==
    \/ \E c \in StartCalls : StartEnter(c)
    \/ \E c \in StartCalls : StartLaunch(c)
    \/ \E c \in StartCalls, kind \in {"csp", "k8s"} : StartTick(c, kind)
    \/ \E c \in StartCalls : StartReturn(c)
    \/ CancelCtx
    \/ \E p \in PassIds : PassListProjects(p)
    \/ \E p \in PassIds : PassListSources(p)
    \/ \E p \in PassIds : PassNextSource(p)
    \/ \E p \in PassIds : PassCollectReturn(p)
    \/ \E p \in PassIds : PassInsert(p)
    \/ \E p \in PassIds : PassUpdate(p)
    \/ \E p \in PassIds : PassReturn(p)
    \/ \E p \in PassIds : PassExit(p)

\* the scheduler's passes with the cursor's clock read and the store's write
\* as separate steps
CursorNext ==
    \/ Start
    \/ CspTick
    \/ K8sTick
    \/ ClockTick
    \/ \E p \in PassIds : PassListProjects(p)
    \/ \E p \in PassIds : PassListSources(p)
    \/ \E p \in PassIds : PassNextSource(p)
    \/ \E p \in PassIds : PassCollectReturn(p)
    \/ \E p \in PassIds : PassInsert(p)
    \/ \E p \in PassIds : PassUpdateNow(p)
    \/ \E p \in PassIds : PassUpdateWrite(p)
    \/ \E p \in PassIds : PassReturn(p)
    \/ \E p \in PassIds : PassExit(p)

\* the scheduler before Start, over a store of never-collected sources
SchedQuiet ==
    /\ now = 0
    /\ cursor = [id \in SourceIds |-> Nil]
    /\ pass = [p \in PassIds |-> NoPass]
    /\ running = FALSE
    /\ loop = "none"
    /\ ctxDone = FALSE
    /\ launched = 0
    /\ starts = [c \in StartCalls |-> "none"]

(***************************************************************************)
(* The plugin manager.                                                     *)
(***************************************************************************)
\* what GetMetadata of an instance returns when it succeeds; the two
\* costbreakdown instances differ in their version
MetadataOf(i) ==
    [name    |-> IF i = "bg1" THEN "budgets" ELSE "costbreakdown",
     version |-> IF i = "cb2" THEN "0.2.0" ELSE "0.1.0",
     topic   |-> IF i = "bg1" THEN "budget.warning" ELSE "cost.idle.detected"]

PluginNames == {MetadataOf(i).name : i \in Insts}

NoMeta == [name |-> "", version |-> "", topic |-> ""]

\* p.GetMetadata(): the metadata, or an error
GetMetadata(i, ok) ==
    IF ok THEN [err |-> FALSE, meta |-> MetadataOf(i)]
          ELSE [err |-> TRUE, meta |-> NoMeta]

\* an absent map entry; cancel is the bridge whose context the handle
\* cancels, 0 for a nil handle
NoReg == [present |-> FALSE, instance |-> "", meta |-> NoMeta, cancel |-> 0]

\* a goroutine that is in no manager call
MIdle == [op |-> "idle", pc |-> "idle", inst |-> "", meta |-> NoMeta,
          todo |-> {}, called |-> {}, failed |-> {}, started |-> {},
          result |-> ""]

\* the names in m.plugins
Registered == {n \in PluginNames : plugins[n].present}

\* the payload bytes a plugin instance puts in its events
PayloadOf(i) == "{\"plugin\":\"" \o i \o "\"}"

\* the event a plugin instance emits with timestamp k
PluginEvent(i, k) ==
    [type |-> "alert", topic |-> MetadataOf(i).topic, timestamp |-> k,
     source |-> MetadataOf(i).name, payload |-> PayloadOf(i)]

\* no event in hand
NoPluginEvent ==
    [type |-> "", topic |-> "", timestamp |-> 0, source |-> "", payload |-> ""]

StreamEvtUnstamped(evt) ==
    [type |-> evt.type, topic |-> evt.topic, timestamp |-> 0,
     source |-> evt.source, payload |-> evt.payload]

\* the event.Event bridgeEvents builds from a plugin event, field by field
StreamEvt(evt) ==
    [type |-> evt.type, topic |-> evt.topic, timestamp |-> evt.timestamp,
     source |-> evt.source, payload |-> evt.payload]

\* NewManager
ManagerInit ==
    /\ plugins = [n \in PluginNames |-> NoReg]
    /\ mreaders = {}
    /\ mproc = [g \in MProcs |-> MIdle]
    /\ bridges = <<>>
    /\ initCtxDone = FALSE
    /\ pevents = [i \in Insts |-> <<>>]
    /\ peventsClosed = [i \in Insts |-> FALSE]
    /\ emitted = 0
    /\ bridged = <<>>
    /\ initOk = {}
    /\ initAllStarted = 0
    /\ plugPanic = FALSE
    /\ poll = [i \in Insts |-> "none"]

(***************************************************************************)
(* Manager.Register, in two steps: p.GetMetadata(), called before the lock *)
(* is taken, and the section under m.mu.Lock.                              *)
(***************************************************************************)
RegisterGetMetadata(g, i, ok) ==
    /\ ~plugPanic
    /\ mproc[g].op = "idle"
    /\ LET r == GetMetadata(i, ok) IN
       mproc' = [mproc EXCEPT ![g] =
           IF r.err
           THEN [MIdle EXCEPT !.op = "register", !.pc = "done", !.inst = i,
                              !.result = "metadata error"]
           ELSE [MIdle EXCEPT !.op = "register", !.pc = "lock", !.inst = i,
                              !.meta = r.meta]]
    /\ UNCHANGED <<plugins, mreaders, bridges, initCtxDone, pevents,
                   peventsClosed, emitted, bridged, initOk, initAllStarted,
                   plugPanic>>
    /\ UNCHANGED <<poll, notPlugin>>

RegisterExistsNever(name) == FALSE

\* _, exists := m.plugins[meta.Name]
RegisterExists(name) == plugins[name].present

RegisterLocked(g) ==
    /\ ~plugPanic
    /\ mproc[g].op = "register"
    /\ mproc[g].pc = "lock"
    /\ mreaders = {}
    /\ LET meta == mproc[g].meta IN
       IF RegisterExists(meta.name)
       THEN /\ mproc' = [mproc EXCEPT ![g].pc = "done",
                                      ![g].result = "already registered"]
            /\ UNCHANGED plugins
       ELSE /\ plugins' = [plugins EXCEPT ![meta.name] =
                   [present |-> TRUE, instance |-> mproc[g].inst,
                    meta |-> meta, cancel |-> 0]]
            /\ mproc' = [mproc EXCEPT ![g].pc = "done", ![g].result = "nil"]
    /\ UNCHANGED <<mreaders, bridges, initCtxDone, pevents, peventsClosed,
                   emitted, bridged, initOk, initAllStarted, plugPanic>>
    /\ UNCHANGED <<poll, notPlugin>>

\* the return of a manager call; the deferred RUnlock of InitializeAll and
\* ShutdownAll runs here
ManagerReturn(g) ==
    /\ ~plugPanic
    /\ mproc[g].pc = "done"
    /\ mproc' = [mproc EXCEPT ![g] = MIdle]
    /\ mreaders' = mreaders \ {g}
    /\ UNCHANGED <<plugins, bridges, initCtxDone, pevents, peventsClosed,
                   emitted, bridged, initOk, initAllStarted, plugPanic>>
    /\ UNCHANGED <<poll, notPlugin>>

(***************************************************************************)
(* Manager.InitializeAll: under m.mu.RLock, one iteration per registered   *)
(* plugin in the map's (arbitrary) order.  A failed Initialize is logged   *)
(* and the loop continues; a successful one stores a cancel handle on the  *)
(* registration and starts a bridgeEvents goroutine.  Returns nil.         *)
(***************************************************************************)
InitializeAllCall(g, calls) ==
    /\ ~plugPanic
    /\ mproc[g].op = "idle"
    /\ initAllStarted < calls
    /\ initAllStarted' = initAllStarted + 1
    /\ mreaders' = mreaders \cup {g}
    /\ mproc' = [mproc EXCEPT ![g] =
           [MIdle EXCEPT !.op = "initializeAll",
                         !.pc = IF Registered = {} THEN "done" ELSE "loop",
                         !.todo = Registered,
                         !.result = IF Registered = {} THEN "nil" ELSE ""]]
    /\ UNCHANGED <<plugins, bridges, initCtxDone, pevents, peventsClosed,
                   emitted, bridged, initOk, plugPanic>>
    /\ UNCHANGED <<poll, notPlugin>>

InitializeAllBegin(g) == InitializeAllCall(g, Cardinality(InitAllCalls))

\* the same call where the caller may call again
InitializeAllRepeated(g) ==
    InitializeAllCall(g, Cardinality(RepeatedInitAllCalls))

AfterInitializeErrAbort(todo, name) == {}

\* `continue` after a failed Initialize: the names still to visit
AfterInitializeErr(todo, name) == todo \ {name}

InitializeAllVisit(g, name, ok) ==
    /\ ~plugPanic
    /\ mproc[g].op = "initializeAll"
    /\ mproc[g].pc = "loop"
    /\ name \in mproc[g].todo
    /\ LET rp == plugins[name]
           rest == IF ok THEN mproc[g].todo \ {name}
                         ELSE AfterInitializeErr(mproc[g].todo, name)
       IN
       /\ mproc' = [mproc EXCEPT
              ![g].todo = rest,
              ![g].called = @ \cup {name},
              ![g].failed = IF ok THEN @ ELSE @ \cup {name},
              ![g].started = IF ok THEN @ \cup {name} ELSE @,
              ![g].pc = IF rest = {} THEN "done" ELSE "loop",
              ![g].result = IF rest = {} THEN "nil" ELSE ""]
       /\ IF ok
          THEN /\ bridges' = Append(bridges,
                      [inst |-> rp.instance, name |-> name, pc |-> "start",
                       cancelled |-> FALSE, evt |-> NoPluginEvent,
                       chan |-> "none"])
               /\ plugins' = [plugins EXCEPT ![name].cancel = Len(bridges) + 1]
               /\ initOk' = initOk \cup {rp.instance}
          ELSE UNCHANGED <<bridges, plugins, initOk>>
    /\ UNCHANGED <<mreaders, initCtxDone, pevents, peventsClosed, emitted,
                   bridged, initAllStarted, plugPanic>>
    /\ UNCHANGED <<poll, notPlugin>>

(***************************************************************************)
(* Manager.ShutdownAll: under m.mu.RLock, one iteration per registered     *)
(* plugin: rp.cancel() when the handle is set, then the plugin's Shutdown, *)
(* which closes the plugin's channel (plugins/costbreakdown/plugin.go,     *)
(* the test's mock); closing a closed channel panics.  A Shutdown that     *)
(* returns an error is logged and the loop goes on.                        *)
(***************************************************************************)
ShutdownAllBegin(g) ==
    /\ ~plugPanic
    /\ mproc[g].op = "idle"
    /\ mreaders' = mreaders \cup {g}
    /\ mproc' = [mproc EXCEPT ![g] =
           [MIdle EXCEPT !.op = "shutdownAll",
                         !.pc = IF Registered = {} THEN "done" ELSE "loop",
                         !.todo = Registered]]
    /\ UNCHANGED <<plugins, bridges, initCtxDone, pevents, peventsClosed,
                   emitted, bridged, initOk, initAllStarted, plugPanic>>
    /\ UNCHANGED <<poll, notPlugin>>

ShutdownAllVisit(g, name, ok) ==
    /\ ~plugPanic
    /\ mproc[g].op = "shutdownAll"
    /\ mproc[g].pc = "loop"
    /\ name \in mproc[g].todo
    /\ LET rp == plugins[name]
           rest == mproc[g].todo \ {name}
       IN
       /\ mproc' = [mproc EXCEPT
              ![g].todo = rest,
              ![g].called = @ \cup {name},
              ![g].failed = IF ok THEN @ ELSE @ \cup {name},
              ![g].pc = IF rest = {} THEN "done" ELSE "loop"]
       /\ bridges' = IF rp.cancel # 0
                     THEN [bridges EXCEPT ![rp.cancel].cancelled = TRUE]
                     ELSE bridges
       /\ plugPanic' = peventsClosed[rp.instance]
       /\ peventsClosed' = [peventsClosed EXCEPT ![rp.instance] = TRUE]
    /\ UNCHANGED <<plugins, mreaders, initCtxDone, pevents, emitted, bridged,
                   initOk, initAllStarted>>
    /\ UNCHANGED <<poll, notPlugin>>

(***************************************************************************)
(* Manager.bridgeEvents, one goroutine per successful Initialize.          *)
(***************************************************************************)
BridgeCtxDoneOwnCancelOnly(b) == bridges[b].cancelled

\* ctx.Done() of the bridge's derived context is ready
BridgeCtxDone(b) == bridges[b].cancelled \/ initCtxDone

AfterStreamEventsIgnoreErr(outcome) == "loop"

\* where bridgeEvents goes after p.StreamEvents(ctx): into its loop with
\* the channel, or to its return on an error or a nil channel
AfterStreamEvents(outcome) ==
    IF outcome = "chan" THEN "loop" ELSE "returned"

\* p.StreamEvents(ctx): the channel, an error, or a nil channel; chan keeps
\* what the call returned
bridgeEventsStart(b, outcome) ==
    /\ ~plugPanic
    /\ b \in 1..Len(bridges)
    /\ bridges[b].pc = "start"
    /\ bridges' = [bridges EXCEPT ![b].pc = AfterStreamEvents(outcome),
                                  ![b].chan = outcome]
    /\ UNCHANGED <<plugins, mreaders, mproc, initCtxDone, pevents,
                   peventsClosed, emitted, bridged, initOk, initAllStarted,
                   plugPanic>>
    /\ UNCHANGED <<poll, notPlugin>>

\* the goroutine of bridge b, as a caller of the hub
Goroutine(b) == IF b % 2 = 1 THEN "g1" ELSE "g2"

\* case evt, ok := <-events with ok true, once the previous m.hub.Publish
\* has returned
bridgeEventsRecv(b) ==
    /\ ~plugPanic
    /\ b \in 1..Len(bridges)
    /\ bridges[b].pc = "loop"
    /\ proc[Goroutine(b)].op = "idle"
    /\ pevents[bridges[b].inst] # <<>>
    /\ bridges' = [bridges EXCEPT ![b].pc = "publish",
                                  ![b].evt = Head(pevents[bridges[b].inst])]
    /\ pevents' = [pevents EXCEPT ![bridges[b].inst] = Tail(@)]
    /\ UNCHANGED <<plugins, mreaders, mproc, initCtxDone, peventsClosed,
                   emitted, bridged, initOk, initAllStarted, plugPanic>>
    /\ UNCHANGED <<poll, notPlugin>>

\* streamEvt := &event.Event{...}; m.hub.Publish(streamEvt): the call
\* begins here and its loop over the clients is the hub's
bridgeEventsPublish(b) ==
    /\ ~plugPanic
    /\ b \in 1..Len(bridges)
    /\ bridges[b].pc = "publish"
    /\ PublishCall(Goroutine(b), "publish", StreamEvt(bridges[b].evt))
    /\ bridged' = Append(bridged, StreamEvt(bridges[b].evt))
    /\ bridges' = [bridges EXCEPT ![b].pc = "loop",
                                  ![b].evt = NoPluginEvent]
    /\ UNCHANGED <<plugins, mreaders, mproc, initCtxDone, pevents,
                   peventsClosed, emitted, initOk, initAllStarted, plugPanic,
                   poll>>
    /\ UNCHANGED <<schedVars, httpVars, logVars, writing, stream>>

\* case <-ctx.Done(), or a receive from the closed and drained channel
bridgeEventsReturn(b) ==
    /\ ~plugPanic
    /\ b \in 1..Len(bridges)
    /\ bridges[b].pc = "loop"
    /\ proc[Goroutine(b)].op = "idle"
    /\ \/ BridgeCtxDone(b)
       \/ pevents[bridges[b].inst] = <<>> /\ peventsClosed[bridges[b].inst]
    /\ bridges' = [bridges EXCEPT ![b].pc = "returned"]
    /\ UNCHANGED <<plugins, mreaders, mproc, initCtxDone, pevents,
                   peventsClosed, emitted, bridged, initOk, initAllStarted,
                   plugPanic>>
    /\ UNCHANGED <<poll, notPlugin>>

(***************************************************************************)
(* The environment of the manager: a registered plugin puts an event on    *)
(* its channel (a send on a closed channel panics), and the caller of      *)
(* InitializeAll cancels the context it passed.                            *)
(***************************************************************************)
PluginEmit(i) ==
    /\ ~plugPanic
    /\ plugins[MetadataOf(i).name].present
    /\ plugins[MetadataOf(i).name].instance = i
    /\ emitted < Cardinality(Stamps)
    /\ IF peventsClosed[i]
       THEN /\ plugPanic' = TRUE
            /\ UNCHANGED <<pevents, emitted>>
       ELSE /\ pevents' = [pevents EXCEPT
                   ![i] = Append(@, PluginEvent(i, emitted + 1))]
            /\ emitted' = emitted + 1
            /\ UNCHANGED plugPanic
    /\ UNCHANGED <<plugins, mreaders, mproc, bridges, initCtxDone,
                   peventsClosed, bridged, initOk, initAllStarted>>
    /\ UNCHANGED <<poll, notPlugin>>

\* a plugin puts on its channel an event whose Payload bytes are not valid
\* JSON
InvalidPluginEvent(i, k) == [PluginEvent(i, k) EXCEPT !.payload = "bad"]

PluginEmitInvalid(i) ==
    /\ ~plugPanic
    /\ plugins[MetadataOf(i).name].present
    /\ plugins[MetadataOf(i).name].instance = i
    /\ emitted < Cardinality(Stamps)
    /\ IF peventsClosed[i]
       THEN /\ plugPanic' = TRUE
            /\ UNCHANGED <<pevents, emitted>>
       ELSE /\ pevents' = [pevents EXCEPT
                   ![i] = Append(@, InvalidPluginEvent(i, emitted + 1))]
            /\ emitted' = emitted + 1
            /\ UNCHANGED plugPanic
    /\ UNCHANGED <<plugins, mreaders, mproc, bridges, initCtxDone,
                   peventsClosed, bridged, initOk, initAllStarted>>
    /\ UNCHANGED <<poll, notPlugin>>

CancelInitCtx ==
    /\ ~plugPanic
    /\ ~initCtxDone
    /\ initCtxDone' = TRUE
    /\ UNCHANGED <<plugins, mreaders, mproc, bridges, pevents, peventsClosed,
                   emitted, bridged, initOk, initAllStarted, plugPanic>>
    /\ UNCHANGED <<poll, notPlugin>>

(***************************************************************************)
(* The poll loop of a built-in plugin (budgets, costbreakdown), started by *)
(* Initialize with `go p.pollLoop(ctx)` on the context InitializeAll was   *)
(* given: one check at once, then one per tick until that context is done. *)
(* A check fetches from OpenCost with the context and, when it finds       *)
(* something to report, sends on p.events in a select with a default       *)
(* branch.  The channel's capacity of 100 is not reached by the            *)
(* Cardinality(Stamps) events of a behaviour.                              *)
(***************************************************************************)
\* the goroutine started by a successful Initialize begins to run
pollLoopStart(i) ==
    /\ ~plugPanic
    /\ i \in initOk
    /\ poll[i] = "none"
    /\ poll' = [poll EXCEPT ![i] = "check"]
    /\ UNCHANGED <<plugins, mreaders, mproc, bridges, initCtxDone, pevents,
                   peventsClosed, emitted, bridged, initOk, initAllStarted,
                   plugPanic>>
    /\ UNCHANGED notPlugin

\* checkBudgets / detectIdle up to the send: the fetch fails (as it does
\* when the context is done) or finds nothing to report, or there is an
\* event to send
pollCheck(i, found) ==
    /\ ~plugPanic
    /\ poll[i] = "check"
    /\ found => ~initCtxDone
    /\ poll' = [poll EXCEPT ![i] = IF found THEN "send" ELSE "wait"]
    /\ UNCHANGED <<plugins, mreaders, mproc, bridges, initCtxDone, pevents,
                   peventsClosed, emitted, bridged, initOk, initAllStarted,
                   plugPanic>>
    /\ UNCHANGED notPlugin

\* select { case p.events <- &pluginpkg.Event{...}: default: }, which
\* panics when the channel is closed
pollSend(i) ==
    /\ ~plugPanic
    /\ poll[i] = "send"
    /\ emitted < Cardinality(Stamps)
    /\ poll' = [poll EXCEPT ![i] = "wait"]
    /\ IF peventsClosed[i]
       THEN /\ plugPanic' = TRUE
            /\ UNCHANGED <<pevents, emitted>>
       ELSE /\ pevents' = [pevents EXCEPT
                   ![i] = Append(@, PluginEvent(i, emitted + 1))]
            /\ emitted' = emitted + 1
            /\ UNCHANGED plugPanic
    /\ UNCHANGED <<plugins, mreaders, mproc, bridges, initCtxDone,
                   peventsClosed, bridged, initOk, initAllStarted>>
    /\ UNCHANGED notPlugin

\* case <-ticker.C
pollTick(i) ==
    /\ ~plugPanic
    /\ poll[i] = "wait"
    /\ poll' = [poll EXCEPT ![i] = "check"]
    /\ UNCHANGED <<plugins, mreaders, mproc, bridges, initCtxDone, pevents,
                   peventsClosed, emitted, bridged, initOk, initAllStarted,
                   plugPanic>>
    /\ UNCHANGED notPlugin

\* case <-ctx.Done(): return
pollReturn(i) ==
    /\ ~plugPanic
    /\ poll[i] = "wait"
    /\ initCtxDone
    /\ poll' = [poll EXCEPT ![i] = "returned"]
    /\ UNCHANGED <<plugins, mreaders, mproc, bridges, initCtxDone, pevents,
                   peventsClosed, emitted, bridged, initOk, initAllStarted,
                   plugPanic>>
    /\ UNCHANGED notPlugin

\* the registered built-in plugins from InitializeAll to ShutdownAll, with
\* their poll loops and their bridges
PollNext ==
    \/ \E g \in MProcs : ManagerReturn(g)
    \/ \E g \in MProcs : InitializeAllBegin(g)
    \/ \E g \in MProcs, name \in PluginNames, ok \in BOOLEAN :
           InitializeAllVisit(g, name, ok)
    \/ \E g \in MProcs : ShutdownAllBegin(g)
    \/ \E g \in MProcs, name \in PluginNames, ok \in BOOLEAN :
           ShutdownAllVisit(g, name, ok)
    \/ \E b \in 1..Len(bridges), outcome \in {"chan", "err", "nil"} :
           bridgeEventsStart(b, outcome)
    \/ \E b \in 1..Len(bridges) : bridgeEventsRecv(b)
    \/ \E b \in 1..Len(bridges) : bridgeEventsPublish(b)
    \/ \E b \in 1..Len(bridges) : bridgeEventsReturn(b)
    \/ \E i \in Insts : pollLoopStart(i)
    \/ \E i \in Insts, found \in BOOLEAN : pollCheck(i, found)
    \/ \E i \in Insts : pollSend(i)
    \/ \E i \in Insts : pollTick(i)
    \/ \E i \in Insts : pollReturn(i)
    \/ CancelInitCtx

\* registration and initialization, with the bridges and the plugins
PluginNext ==
    \/ \E g \in MProcs, i \in Insts, ok \in BOOLEAN :
           RegisterGetMetadata(g, i, ok)
    \/ \E g \in MProcs : RegisterLocked(g)
    \/ \E g \in MProcs : ManagerReturn(g)
    \/ \E g \in MProcs : InitializeAllBegin(g)
    \/ \E g \in MProcs, name \in PluginNames, ok \in BOOLEAN :
           InitializeAllVisit(g, name, ok)
    \/ \E b \in 1..Len(bridges), outcome \in {"chan", "err", "nil"} :
           bridgeEventsStart(b, outcome)
    \/ \E b \in 1..Len(bridges) : bridgeEventsRecv(b)
    \/ \E b \in 1..Len(bridges) : bridgeEventsPublish(b)
    \/ \E b \in 1..Len(bridges) : bridgeEventsReturn(b)
    \/ \E i \in Insts : PluginEmit(i)
    \/ CancelInitCtx

\* the manager as main leaves it before InitializeAll: one costbreakdown
\* and one budgets plugin registered
ManagerRegistered ==
    /\ plugins = [n \in PluginNames |->
           LET i == IF n = "budgets" THEN "bg1" ELSE "cb1" IN
           [present |-> TRUE, instance |-> i, meta |-> MetadataOf(i),
            cancel |-> 0]]
    /\ mreaders = {}
    /\ mproc = [g \in MProcs |-> MIdle]
    /\ bridges = <<>>
    /\ initCtxDone = FALSE
    /\ pevents = [i \in Insts |-> <<>>]
    /\ peventsClosed = [i \in Insts |-> FALSE]
    /\ emitted = 0
    /\ bridged = <<>>
    /\ initOk = {}
    /\ initAllStarted = 0
    /\ plugPanic = FALSE
    /\ poll = [i \in Insts |-> "none"]

\* the manager with the budgets plugin registered and nothing else
ManagerOnePlugin ==
    /\ plugins = [n \in PluginNames |->
           IF n = "budgets"
           THEN [present |-> TRUE, instance |-> "bg1",
                 meta |-> MetadataOf("bg1"), cancel |-> 0]
           ELSE NoReg]
    /\ mreaders = {}
    /\ mproc = [g \in MProcs |-> MIdle]
    /\ bridges = <<>>
    /\ initCtxDone = FALSE
    /\ pevents = [i \in Insts |-> <<>>]
    /\ peventsClosed = [i \in Insts |-> FALSE]
    /\ emitted = 0
    /\ bridged = <<>>
    /\ initOk = {}
    /\ initAllStarted = 0
    /\ plugPanic = FALSE
    /\ poll = [i \in Insts |-> "none"]

\* one plugin, its bridges and a caller that may repeat InitializeAll
BridgeNext ==
    \/ \E g \in MProcs : ManagerReturn(g)
    \/ \E g \in MProcs : InitializeAllRepeated(g)
    \/ \E g \in MProcs, name \in PluginNames, ok \in BOOLEAN :
           InitializeAllVisit(g, name, ok)
    \/ \E b \in 1..Len(bridges), outcome \in {"chan", "err", "nil"} :
           bridgeEventsStart(b, outcome)
    \/ \E b \in 1..Len(bridges) : bridgeEventsRecv(b)
    \/ \E b \in 1..Len(bridges) : bridgeEventsPublish(b)
    \/ \E b \in 1..Len(bridges) : bridgeEventsReturn(b)
    \/ \E i \in Insts : PluginEmit(i)
    \/ CancelInitCtx

\* the budgets plugin registered and initialized by one InitializeAll call
\* that has returned: its bridge goroutine is about to call StreamEvents
ManagerOneBridge ==
    /\ plugins = [n \in PluginNames |->
           IF n = "budgets"
           THEN [present |-> TRUE, instance |-> "bg1",
                 meta |-> MetadataOf("bg1"), cancel |-> 1]
           ELSE NoReg]
    /\ mreaders = {}
    /\ mproc = [g \in MProcs |-> MIdle]
    /\ bridges = <<[inst |-> "bg1", name |-> "budgets", pc |-> "start",
                    cancelled |-> FALSE, evt |-> NoPluginEvent,
                    chan |-> "none"]>>
    /\ initCtxDone = FALSE
    /\ pevents = [i \in Insts |-> <<>>]
    /\ peventsClosed = [i \in Insts |-> FALSE]
    /\ emitted = 0
    /\ bridged = <<>>
    /\ initOk = {"bg1"}
    /\ initAllStarted = 1
    /\ plugPanic = FALSE
    /\ poll = [i \in Insts |-> "none"]

\* the goroutines that call into the hub and are not a bridge (the
\* WebSocket handlers of internal/server/server.go)
Handlers == Procs \ {Goroutine(1)}

\* from the plugin's channel to the clients' queues: the plugin, its
\* bridge, the hub's Publish loop, and the clients coming, subscribing,
\* reading and going
DeliveryNext ==
    \/ \E b \in 1..Len(bridges), outcome \in {"chan", "err", "nil"} :
           bridgeEventsStart(b, outcome)
    \/ \E b \in 1..Len(bridges) : bridgeEventsRecv(b)
    \/ \E b \in 1..Len(bridges) : bridgeEventsPublish(b)
    \/ \E b \in 1..Len(bridges) : bridgeEventsReturn(b)
    \/ \E i \in Insts : PluginEmit(i)
    \/ CancelInitCtx
    \/ \E p \in Handlers : Register(p)
    \/ \E p \in Handlers, c \in ClientIds : UnregisterLocked(p, c)
    \/ \E p \in Handlers : UnregisterFinish(p)
    \/ \E p \in Procs, c \in ClientIds : PublishVisit(p, c)
    \/ \E c \in ClientIds, ts \in SUBSET Topics : Subscribe(c, ts)
    \/ \E c \in ClientIds : WritePumpRecv(c)

\* the Go scheduler runs every runnable goroutine: the bridge goroutine
\* takes each of its steps when it can
DeliveryFairness ==
    /\ WF_vars(\E outcome \in {"chan", "err", "nil"} :
                   bridgeEventsStart(1, outcome))
    /\ WF_vars(bridgeEventsRecv(1))
    /\ WF_vars(bridgeEventsPublish(1))
    /\ WF_vars(\E c \in ClientIds : PublishVisit(Goroutine(1), c))

\* one bridge from its start to its return: the plugin emitting, the
\* callers of ShutdownAll, the caller of InitializeAll cancelling its
\* context, and the hub's Publish loop with clients registering
TerminationNext ==
    \/ \E outcome \in {"chan", "err", "nil"} : bridgeEventsStart(1, outcome)
    \/ bridgeEventsRecv(1)
    \/ bridgeEventsPublish(1)
    \/ bridgeEventsReturn(1)
    \/ \E i \in Insts : PluginEmit(i)
    \/ CancelInitCtx
    \/ \E g \in MProcs : ShutdownAllBegin(g)
    \/ \E g \in MProcs, name \in PluginNames, ok \in BOOLEAN :
           ShutdownAllVisit(g, name, ok)
    \/ \E g \in MProcs : ManagerReturn(g)
    \/ \E p \in Handlers : Register(p)
    \/ \E c \in ClientIds : PublishVisit(Goroutine(1), c)
    \/ \E c \in ClientIds : WritePumpRecv(c)

\* the bridge goroutine takes each of its steps when it can, and a select
\* whose ctx.Done() case is ready again and again takes it in the end (Go
\* chooses among the ready cases at random)
TerminationFairness ==
    /\ DeliveryFairness
    /\ SF_vars(bridgeEventsReturn(1))

\* events that can and cannot be serialized, published by a bridge and by
\* direct callers of the hub
SerializationNext ==
    \/ \E outcome \in {"chan", "err", "nil"} : bridgeEventsStart(1, outcome)
    \/ bridgeEventsRecv(1)
    \/ bridgeEventsPublish(1)
    \/ bridgeEventsReturn(1)
    \/ \E i \in Insts : PluginEmit(i)
    \/ \E i \in Insts : PluginEmitInvalid(i)
    \/ CancelInitCtx
    \/ \E p \in Handlers : Register(p)
    \/ \E p \in Handlers, op \in {"publish", "broadcast"}, e \in HubEvents :
           PublishBegin(p, op, e)
    \/ \E p \in Procs, c \in ClientIds : PublishVisit(p, c)
    \/ \E c \in ClientIds : WritePumpRecv(c)

\* initialization and shutdown of the registered plugins
LifecycleNext ==
    \/ \E g \in MProcs : ManagerReturn(g)
    \/ \E g \in MProcs : InitializeAllBegin(g)
    \/ \E g \in MProcs, name \in PluginNames, ok \in BOOLEAN :
           InitializeAllVisit(g, name, ok)
    \/ \E g \in MProcs : ShutdownAllBegin(g)
    \/ \E g \in MProcs, name \in PluginNames, ok \in BOOLEAN :
           ShutdownAllVisit(g, name, ok)
    \/ \E b \in 1..Len(bridges), outcome \in {"chan", "err", "nil"} :
           bridgeEventsStart(b, outcome)
    \/ \E b \in 1..Len(bridges) : bridgeEventsRecv(b)
    \/ \E b \in 1..Len(bridges) : bridgeEventsPublish(b)
    \/ \E b \in 1..Len(bridges) : bridgeEventsReturn(b)
    \/ \E i \in Insts : PluginEmit(i)
    \/ CancelInitCtx

(***************************************************************************)
(* The plugins' HTTP routes: Manager.MountRoutes and makePluginHandler.     *)
(***************************************************************************)
\* meta.Routes of an instance: the budgets and costbreakdown plugins as
\* they declare them, and a costbreakdown build that declares /status, as
\* budgets does, under two methods, and a route with a method that
\* MountRoutes has no case for
RoutesOf(i) ==
    IF i = "bg1"
    THEN {[method |-> "GET", path |-> "/status"],
          [method |-> "GET", path |-> "/config"]}
    ELSE IF i = "cb1"
    THEN {[method |-> "GET", path |-> "/recommendations"],
          [method |-> "GET", path |-> "/summary"]}
    ELSE {[method |-> "GET", path |-> "/status"],
          [method |-> "POST", path |-> "/status"],
          [method |-> "DELETE", path |-> "/summary"]}

MountedMethodsAnyDeclared == {"GET", "POST", "DELETE"}

\* the methods MountRoutes has a case for
MountedMethods == {"GET", "POST"}

\* the pattern MountRoutes mounts a route on: ignoring the plugin's name
\* puts the routes of all plugins in one namespace
RoutePatternShared(name, path) == "/plugins" \o path

\* r.Route("/plugins/"+pluginName, ...) with sub.Get(route.Path, ...)
RoutePattern(name, path) == "/plugins/" \o name \o path

\* the handlers one iteration of MountRoutes puts on the router; a handler
\* is the closure makePluginHandler(pluginInstance, action)
MountedHandlers(name) ==
    {[method |-> r.method, pattern |-> RoutePattern(name, r.path),
      inst |-> plugins[name].instance, action |-> r.path] :
         r \in {q \in RoutesOf(plugins[name].instance) :
                   q.method \in MountedMethods}}

\* the keys a query string may carry, and r.URL.Query(): per key the list
\* of its values, empty for a key the query string does not have
QueryKeys == {"namespace", "limit"}
Queries ==
    {q \in [QueryKeys -> {<<>>, <<"prod">>, <<"dev", "prod">>}] :
        Len(q["limit"]) < 2}

\* params[k] = v[0] for every key with len(v) > 0; the map as its set of
\* key/value pairs
Params(query) ==
    {<<k, query[k][1]>> : k \in {j \in QueryKeys : Len(query[j]) > 0}}

\* net/http status codes
StatusOK == 200
StatusNotFound == 404
StatusInternalServerError == 500

\* *ExecuteResponse; a nil pointer comes with a non-nil error only, as in
\* the plugins' Execute methods
NilResp ==
    [nil |-> TRUE, data |-> "", contentType |-> "", statusCode |-> 0,
     error |-> ""]
Responses ==
    [nil : {FALSE}, data : {"{\"count\":0}"},
     contentType : {"", "text/csv"},
     statusCode : {0, StatusOK, StatusNotFound},
     error : {"", "unknown action: /status"}]

\* what p.Execute returns: err "" is a nil error
ExecuteOutcomes ==
    {[err |-> "marshal failed", resp |-> NilResp]}
        \cup {[err |-> "", resp |-> r] : r \in Responses}
NoOutcome == [err |-> "", resp |-> NilResp]

\* json.NewEncoder(w).Encode(map[string]string{"error": msg})
EncodeError(msg) == "{\"error\":\"" \o msg \o "\"}\n"

\* a handler that takes 200 as the default status of every response
HandlerResultDefaultOK(out) ==
    IF out.err # ""
    THEN [written |-> TRUE, status |-> StatusInternalServerError,
          contentType |-> "application/json", body |-> EncodeError(out.err)]
    ELSE IF out.resp.error # ""
    THEN [written |-> TRUE,
          status |-> IF out.resp.statusCode = 0
                     THEN StatusOK ELSE out.resp.statusCode,
          contentType |-> "application/json",
          body |-> EncodeError(out.resp.error)]
    ELSE [written |-> TRUE,
          status |-> IF out.resp.statusCode = 0
                     THEN StatusOK ELSE out.resp.statusCode,
          contentType |-> IF out.resp.contentType = ""
                          THEN "application/json" ELSE out.resp.contentType,
          body |-> out.resp.data]

\* makePluginHandler, after Execute has returned: the response it writes
HandlerResult(out) ==
    IF out.err # ""
    THEN [written |-> TRUE, status |-> StatusInternalServerError,
          contentType |-> "application/json", body |-> EncodeError(out.err)]
    ELSE IF out.resp.error # ""
    THEN [written |-> TRUE,
          status |-> IF out.resp.statusCode = 0
                     THEN StatusInternalServerError ELSE out.resp.statusCode,
          contentType |-> "application/json",
          body |-> EncodeError(out.resp.error)]
    ELSE [written |-> TRUE,
          status |-> IF out.resp.statusCode = 0
                     THEN StatusOK ELSE out.resp.statusCode,
          contentType |-> IF out.resp.contentType = ""
                          THEN "application/json" ELSE out.resp.contentType,
          body |-> out.resp.data]

NoRequest == [method |-> "", path |-> "", query |-> [k \in QueryKeys |-> <<>>]]
NoExec == [inst |-> "", action |-> "", params |-> {}]
NoResponse == [written |-> FALSE, status |-> 0, contentType |-> "", body |-> ""]

\* the router's own answer when no handler matches the method and path:
\* 405 for a path mounted under another method, else 404
RouterMiss(method, path) ==
    [written |-> TRUE,
     status |-> IF \E h \in router : h.pattern = path
                THEN 405 ELSE StatusNotFound,
     contentType |-> "", body |-> ""]

\* an empty router, no request served
RouterInit ==
    /\ router = {}
    /\ mountCalls = 0
    /\ httpReq = NoRequest
    /\ executed = NoExec
    /\ execOut = NoOutcome
    /\ httpResp = NoResponse

\* Manager.MountRoutes, under m.mu.RLock: one sub-router per registered
\* plugin; server.routes calls it once
MountRoutes ==
    /\ ~plugPanic
    /\ mountCalls = 0
    /\ mountCalls' = 1
    /\ router' = router \cup UNION {MountedHandlers(n) : n \in Registered}
    /\ UNCHANGED <<httpReq, executed, execOut, httpResp>>
    /\ UNCHANGED notHttp

\* the requests of the model: the plugins' routes under their mount points
\* and under other ones
RequestMethods == {"GET", "POST", "DELETE"}
RequestPaths ==
    {"/plugins/" \o n \o pth :
        n \in PluginNames,
        pth \in {"/status", "/config", "/recommendations", "/summary"}}
        \cup {"/plugins/status", "/status"}

\* one request through the router: the handler mounted for its method and
\* path, if there is one, calls Execute and writes the response
ServeHTTP(method, path, query, out) ==
    /\ ~plugPanic
    /\ mountCalls > 0
    /\ httpReq' = [method |-> method, path |-> path, query |-> query]
    /\ LET hs == {h \in router : h.method = method /\ h.pattern = path} IN
       IF hs = {}
       THEN /\ out = NoOutcome
            /\ executed' = NoExec
            /\ execOut' = NoOutcome
            /\ httpResp' = RouterMiss(method, path)
       ELSE /\ out \in ExecuteOutcomes
            /\ \E h \in hs :
                   executed' = [inst |-> h.inst, action |-> h.action,
                                params |-> Params(query)]
            /\ execOut' = out
            /\ httpResp' = HandlerResult(out)
    /\ UNCHANGED <<router, mountCalls>>
    /\ UNCHANGED notHttp

\* the manager as server.New finds it: plugins registered, none initialized
ManagerForRoutes ==
    /\ \E is \in {{"bg1"}, {"cb1", "bg1"}, {"cb2", "bg1"}, {"cb2"}} :
           plugins = [n \in PluginNames |->
               IF \E i \in is : MetadataOf(i).name = n
               THEN LET i == CHOOSE j \in is : MetadataOf(j).name = n IN
                    [present |-> TRUE, instance |-> i,
                     meta |-> MetadataOf(i), cancel |-> 0]
               ELSE NoReg]
    /\ mreaders = {}
    /\ mproc = [g \in MProcs |-> MIdle]
    /\ bridges = <<>>
    /\ initCtxDone = FALSE
    /\ pevents = [i \in Insts |-> <<>>]
    /\ peventsClosed = [i \in Insts |-> FALSE]
    /\ emitted = 0
    /\ bridged = <<>>
    /\ initOk = {}
    /\ initAllStarted = 0
    /\ plugPanic = FALSE
    /\ poll = [i \in Insts |-> "none"]

ListPluginsInitialized ==
    {plugins[n].meta : n \in {k \in Registered : plugins[k].instance \in initOk}}

\* Manager.ListPlugins, under m.mu.RLock: rp.meta of every entry of
\* m.plugins, in the map's order
ListPlugins == {plugins[n].meta : n \in Registered}

\* the manager's calls on its registry: registrations with metadata that
\* can fail, initialization, mounting and shutdown
RegistryNext ==
    \/ \E g \in MProcs, i \in Insts, ok \in BOOLEAN :
           RegisterGetMetadata(g, i, ok)
    \/ \E g \in MProcs : RegisterLocked(g)
    \/ \E g \in MProcs : ManagerReturn(g)
    \/ \E g \in MProcs : InitializeAllBegin(g)
    \/ \E g \in MProcs, name \in PluginNames, ok \in BOOLEAN :
           InitializeAllVisit(g, name, ok)
    \/ \E g \in MProcs : ShutdownAllBegin(g)
    \/ \E g \in MProcs, name \in PluginNames, ok \in BOOLEAN :
           ShutdownAllVisit(g, name, ok)
    \/ MountRoutes

\* main: pm.InitializeAll has returned (srv.Start comes after it)
InitializeAllReturned ==
    /\ initAllStarted > 0
    /\ \A g \in MProcs : mproc[g].op # "initializeAll"

\* a request served by the server main has started, without query string
ServeRequest(method, path, out) ==
    /\ InitializeAllReturned
    /\ ServeHTTP(method, path, NoRequest.query, out)

\* the process as main runs it: the routes mounted by server.New, the
\* plugins initialized, the server serving until and while ShutdownAll
\* runs (srv.Shutdown comes after pm.ShutdownAll)
ServeNext ==
    \/ MountRoutes
    \/ \E g \in MProcs : ManagerReturn(g)
    \/ \E g \in MProcs : InitializeAllBegin(g)
    \/ \E g \in MProcs, name \in PluginNames, ok \in BOOLEAN :
           InitializeAllVisit(g, name, ok)
    \/ \E g \in MProcs : ShutdownAllBegin(g)
    \/ \E g \in MProcs, name \in PluginNames, ok \in BOOLEAN :
           ShutdownAllVisit(g, name, ok)
    \/ CancelInitCtx
    \/ \E method \in RequestMethods, path \in RequestPaths,
          out \in {o \in ExecuteOutcomes : o.resp.nil} \cup {NoOutcome} :
           ServeRequest(method, path, out)

RoutesNext ==
    \/ MountRoutes
    \/ \E method \in RequestMethods, path \in RequestPaths, query \in Queries,
          out \in ExecuteOutcomes \cup {NoOutcome} :
           ServeHTTP(method, path, query, out)

(***************************************************************************)
(* Publish calls told apart: the k-th call publishes an event whose payload *)
(* is the number k, and the history records which calls had returned when  *)
(* it started, and what each client's write pump received.                 *)
(***************************************************************************)
PublishSeqs == {1, 2}

\* the event of the k-th call
NumberedEvent(k, topic) == [type |-> "test", topic |-> topic, payload |-> Itoa(k)]

\* the number of the call a serialized message comes from
SeqOf(m) == CHOOSE k \in PublishSeqs : Itoa(k) = m[4]

PublishLogInit ==
    /\ pubCalls = <<>>
    /\ pubReturned = {}
    /\ dequeued = [c \in ClientIds |-> <<>>]

LoggedPublishBegin(p, topic) ==
    /\ Len(pubCalls) < Cardinality(PublishSeqs)
    /\ LET k == Len(pubCalls) + 1 IN
       /\ PublishCall(p, "publish", NumberedEvent(k, topic))
       /\ pubCalls' = Append(pubCalls, [topic |-> topic, before |-> pubReturned])
       /\ pubReturned' = IF clients = {} THEN pubReturned \cup {k}
                                         ELSE pubReturned
    /\ UNCHANGED dequeued
    /\ UNCHANGED <<schedVars, plugVars, httpVars, writing, stream>>

LoggedPublishVisit(p, c) ==
    /\ PublishVisitCall(p, c)
    /\ pubReturned' = IF proc[p].todo = {c}
                      THEN pubReturned \cup {SeqOf(proc[p].data)}
                      ELSE pubReturned
    /\ UNCHANGED <<pubCalls, dequeued>>
    /\ UNCHANGED <<schedVars, plugVars, httpVars, writing, stream>>

LoggedWritePumpRecv(c) ==
    /\ WritePumpDequeue(c)
    /\ dequeued' = [dequeued EXCEPT ![c] = Append(@, Head(send[c]))]
    /\ UNCHANGED <<pubCalls, pubReturned>>
    /\ UNCHANGED <<schedVars, plugVars, httpVars, writing, stream>>

\* publishers, clients coming and going, subscribing to a topic and reading
FifoNext ==
    \/ \E p \in Procs : Register(p)
    \/ \E p \in Procs, c \in ClientIds : UnregisterLocked(p, c)
    \/ \E p \in Procs : UnregisterFinish(p)
    \/ \E p \in Procs, topic \in Topics : LoggedPublishBegin(p, topic)
    \/ \E p \in Procs, c \in ClientIds : LoggedPublishVisit(p, c)
    \/ \E c \in ClientIds, t \in Topics : Subscribe(c, {t})
    \/ \E c \in ClientIds : LoggedWritePumpRecv(c)

(***************************************************************************)
(* Client.Subscribe as the read pump runs it: a loop of map writes, under  *)
(* no lock, between the call and its return.  A Publish loop of another    *)
(* goroutine that reaches the client meanwhile reads the same map in       *)
(* subscribedTo, holding h.mu.RLock only.  The two accesses are not        *)
(* ordered: the read finds the map as it was before the call, as it is     *)
(* after it, or the runtime stops the program (concurrent map read and map *)
(* write).                                                                 *)
(***************************************************************************)
NoSubscribeCall == writing = [c \in ClientIds |-> {}]

\* c.Subscribe(msg.Topics...) is called
SubscribeBegin(c, ts) ==
    /\ c \in 1..created
    /\ cancelCalls[c] = 0
    /\ ~hubPanic
    /\ ts # {}
    /\ writing[c] = {}
    /\ writing' = [writing EXCEPT ![c] = ts]
    /\ UNCHANGED <<hubVars, schedVars, plugVars, httpVars, logVars, stream>>

\* the loop has written its last topic and the call returns
SubscribeEnd(c) ==
    /\ writing[c] # {}
    /\ ~hubPanic
    /\ topics' = [topics EXCEPT ![c] = SubscribeTopics(@, writing[c])]
    /\ writing' = [writing EXCEPT ![c] = {}]
    /\ UNCHANGED <<clients, created, send, sendClosed, closedOnce,
                   cancelCalls, existedCalls, readers, proc, hubPanic>>
    /\ UNCHANGED <<schedVars, plugVars, httpVars, logVars, stream>>

\* what the read of c.topics in subscribedTo can find during the call
RacyReads == {"before", "after", "fatal"}

\* an iteration of Publish's loop over a client no Subscribe call is in
PublishVisitQuiet(p, c) ==
    /\ writing[c] = {}
    /\ PublishVisit(p, c)

\* an iteration of Publish's loop over a client whose Subscribe call is in
\* progress
PublishVisitDuringWrite(p, c, seen) ==
    /\ proc[p].op = "publish"
    /\ proc[p].pc = "loop"
    /\ ~hubPanic
    /\ c \in proc[p].todo
    /\ writing[c] # {}
    /\ IF seen = "fatal"
       THEN /\ hubPanic' = TRUE
            /\ UNCHANGED <<proc, readers, send>>
       ELSE /\ IF proc[p].todo = {c}
               THEN /\ proc' = [proc EXCEPT ![p] = Idle]
                    /\ readers' = readers \ {p}
               ELSE /\ proc' = [proc EXCEPT ![p].todo = @ \ {c}]
                    /\ UNCHANGED readers
            /\ LET filter == IF seen = "before" THEN topics[c]
                             ELSE topics[c] \cup writing[c]
               IN
               IF filter = {} \/ proc[p].e.topic \in filter
               THEN send' = [send EXCEPT ![c] = TrySend(@, proc[p].data)]
               ELSE UNCHANGED send
            /\ UNCHANGED hubPanic
    /\ UNCHANGED <<clients, created, topics, sendClosed, closedOnce,
                   cancelCalls, existedCalls>>
    /\ UNCHANGED <<schedVars, plugVars, httpVars, logVars, writing, stream>>

\* one publisher, and clients registering, subscribing and reading
RaceNext ==
    \/ \E p \in Procs : Register(p)
    \/ \E e \in HubEvents : PublishBegin(Goroutine(1), "publish", e)
    \/ \E c \in ClientIds : PublishVisitQuiet(Goroutine(1), c)
    \/ \E c \in ClientIds, seen \in RacyReads :
           PublishVisitDuringWrite(Goroutine(1), c, seen)
    \/ \E c \in ClientIds, ts \in SUBSET Topics : SubscribeBegin(c, ts)
    \/ \E c \in ClientIds : SubscribeEnd(c)
    \/ \E c \in ClientIds : WritePumpRecv(c)

(***************************************************************************)
(* Server.handleStream, readPump and writePump (internal/server/server.go).*)
(* The handler registers a client on the request's context, defers         *)
(* Unregister, starts the read pump and runs the write pump itself.  The   *)
(* connection is hijacked by websocket.Accept, so the request's context is *)
(* cancelled by nothing but the handler's return; the client's context is  *)
(* cancelled by Unregister only.                                           *)
(***************************************************************************)
\* no connection yet
NoConn == [handler |-> "", pc |-> "none", conn |-> "none", reader |-> "none"]

NoStream == stream = [c \in ClientIds |-> NoConn]

\* the goroutine is not inside a handleStream call
HandlerFree(p) ==
    \A c \in ClientIds :
        stream[c].handler = p => stream[c].pc \in {"none", "returned"}

\* c.Context().Done() is ready
ClientCtxDone(c) == cancelCalls[c] > 0

\* handleStream up to the write pump's first select, for an accepted
\* connection: Register, the deferred Unregister, the welcome message,
\* go s.readPump(client)
handleStream(p) ==
    /\ HandlerFree(p)
    /\ RegisterCall(p)
    /\ stream' = [stream EXCEPT ![created + 1] =
           [handler |-> p, pc |-> "select", conn |-> "open",
            reader |-> "read"]]
    /\ UNCHANGED notHubNorStream

\* the peer closes the connection
PeerClose(c) ==
    /\ stream[c].conn = "open"
    /\ ~hubPanic
    /\ stream' = [stream EXCEPT ![c].conn = "peerClosed"]
    /\ UNCHANGED <<hubVars, notHubNorStream>>

\* readPump: Read returns a subscribe message
readPumpSubscribe(c, ts) ==
    /\ stream[c].reader = "read"
    /\ stream[c].conn = "open"
    /\ Subscribe(c, ts)

\* readPump: Read returns an error (the connection is closed or the
\* client's context is cancelled); the pump returns and its deferred
\* CloseNow closes the connection
readPumpReturn(c) ==
    /\ stream[c].reader = "read"
    /\ ~hubPanic
    /\ stream[c].conn # "open" \/ ClientCtxDone(c)
    /\ stream' = [stream EXCEPT ![c].reader = "returned",
                                ![c].conn = "closed"]
    /\ UNCHANGED <<hubVars, notHubNorStream>>

\* writePump: case msg, ok := <-c.Send() with ok true
writePumpRecv(c) ==
    /\ stream[c].pc = "select"
    /\ WritePumpDequeue(c)
    /\ stream' = [stream EXCEPT ![c].pc = "write"]
    /\ UNCHANGED notHubNorStream

\* what c.Conn().Write can return: nil on an open connection, an error on
\* a closed one or under a cancelled context, either after the peer has
\* closed and before the read pump has noticed
WriteOutcomes(c) ==
    IF ClientCtxDone(c) \/ stream[c].conn = "closed" THEN {FALSE}
    ELSE IF stream[c].conn = "peerClosed" THEN BOOLEAN
    ELSE {TRUE}

\* writePump: c.Conn().Write of the message received; an error returns
writePumpWrite(c, ok) ==
    /\ stream[c].pc = "write"
    /\ ~hubPanic
    /\ ok \in WriteOutcomes(c)
    /\ stream' = [stream EXCEPT ![c].pc = IF ok THEN "select"
                                          ELSE "unregister"]
    /\ UNCHANGED <<hubVars, notHubNorStream>>

\* writePump: case <-c.Context().Done(), or a receive from the closed and
\* drained queue
writePumpReturn(c) ==
    /\ stream[c].pc = "select"
    /\ ~hubPanic
    /\ ClientCtxDone(c) \/ (sendClosed[c] /\ send[c] = <<>>)
    /\ stream' = [stream EXCEPT ![c].pc = "unregister"]
    /\ UNCHANGED <<hubVars, notHubNorStream>>

\* the deferred s.hub.Unregister(client), in the two steps of Unregister
handleStreamUnregister(c) ==
    /\ stream[c].pc = "unregister"
    /\ UnregisterLockedCall(stream[c].handler, c)
    /\ stream' = [stream EXCEPT ![c].pc = "unlocked"]
    /\ UNCHANGED notHubNorStream

handleStreamReturn(c) ==
    /\ stream[c].pc = "unlocked"
    /\ proc[stream[c].handler].c = c
    /\ UnregisterFinishCall(stream[c].handler)
    /\ stream' = [stream EXCEPT ![c].pc = "returned"]
    /\ UNCHANGED notHubNorStream

\* the callers of the hub that are not stream handlers
PublisherBegin(p, op, e) ==
    /\ HandlerFree(p)
    /\ PublishBegin(p, op, e)

OtherUnregisterLocked(p, c) ==
    /\ HandlerFree(p)
    /\ UnregisterLocked(p, c)

OtherUnregisterFinish(p) ==
    /\ HandlerFree(p)
    /\ UnregisterFinish(p)

\* the goroutine the server runs the stream handlers on, one connection
\* after the other, and the one that publishes meanwhile
StreamHandler == "g1"
StreamPublisher == "g2"

StreamNext ==
    \/ handleStream(StreamHandler)
    \/ \E c \in ClientIds : PeerClose(c)
    \/ \E c \in ClientIds, ts \in SUBSET Topics : readPumpSubscribe(c, ts)
    \/ \E c \in ClientIds : readPumpReturn(c)
    \/ \E c \in ClientIds : writePumpRecv(c)
    \/ \E c \in ClientIds, ok \in BOOLEAN : writePumpWrite(c, ok)
    \/ \E c \in ClientIds : writePumpReturn(c)
    \/ \E c \in ClientIds : handleStreamUnregister(c)
    \/ \E c \in ClientIds : handleStreamReturn(c)
    \/ \E e \in HubEvents : PublisherBegin(StreamPublisher, "publish", e)
    \/ \E c \in ClientIds : PublishVisit(StreamPublisher, c)
    \/ \E c \in ClientIds : OtherUnregisterLocked(StreamPublisher, c)
    \/ OtherUnregisterFinish(StreamPublisher)

\* a goroutine that can take a step of a handler, of a pump or of a Publish
\* loop takes it; the peer, the publishers and other callers of Unregister
\* owe nothing
StreamFairness ==
    /\ \A c \in ClientIds :
           /\ WF_vars(readPumpReturn(c))
           /\ WF_vars(writePumpRecv(c))
           /\ WF_vars(\E ok \in BOOLEAN : writePumpWrite(c, ok))
           /\ WF_vars(writePumpReturn(c))
           /\ WF_vars(handleStreamUnregister(c))
           /\ WF_vars(handleStreamReturn(c))
    /\ WF_vars(\E c \in ClientIds : PublishVisit(StreamPublisher, c))
    /\ WF_vars(OtherUnregisterFinish(StreamPublisher))

(***************************************************************************)
(* The specifications: one per subsystem, the others at rest.              *)
(***************************************************************************)
HubSpecInit == HubInit /\ SchedQuiet /\ ManagerInit /\ RouterInit /\ PublishLogInit
    /\ NoSubscribeCall /\ NoStream
SpecHub == HubSpecInit /\ [][HubNext]_vars

SchedSpecInit == HubInit /\ SchedInit /\ ManagerInit /\ RouterInit /\ PublishLogInit
    /\ NoSubscribeCall /\ NoStream
SpecSched == SchedSpecInit /\ [][SchedNext]_vars

\* the goroutine of Start runs when it can: its select takes the ready
\* ctx.Done() case
SchedFairness == WF_vars(LoopReturn)
SpecSchedFair == SchedSpecInit /\ [][SchedNext]_vars /\ SchedFairness

CursorSpecInit ==
    /\ HubInit /\ SchedInit /\ ManagerInit /\ RouterInit /\ PublishLogInit
    /\ NoSubscribeCall /\ NoStream

SpecCursor == CursorSpecInit /\ [][CursorNext]_vars

StartSpecInit ==
    /\ HubInit /\ SchedInit /\ ManagerInit /\ RouterInit /\ PublishLogInit
    /\ NoSubscribeCall /\ NoStream

SpecStart == StartSpecInit /\ [][StartNext]_vars

PollSpecInit ==
    /\ HubInit /\ SchedQuiet /\ ManagerOnePlugin /\ RouterInit /\ PublishLogInit
    /\ NoSubscribeCall /\ NoStream

SpecPoll == PollSpecInit /\ [][PollNext]_vars

ServeSpecInit ==
    /\ HubInit /\ SchedQuiet /\ ManagerRegistered /\ RouterInit /\ PublishLogInit
    /\ NoSubscribeCall /\ NoStream

SpecServe == ServeSpecInit /\ [][ServeNext]_vars

RegistrySpecInit ==
    /\ HubInit /\ SchedQuiet /\ ManagerInit /\ RouterInit /\ PublishLogInit
    /\ NoSubscribeCall /\ NoStream

SpecRegistry == RegistrySpecInit /\ [][RegistryNext]_vars

PluginSpecInit == HubInit /\ SchedQuiet /\ ManagerInit /\ RouterInit /\ PublishLogInit
    /\ NoSubscribeCall /\ NoStream
SpecPlugin == PluginSpecInit /\ [][PluginNext]_vars

BridgeSpecInit == HubInit /\ SchedQuiet /\ ManagerOnePlugin /\ RouterInit /\ PublishLogInit
    /\ NoSubscribeCall /\ NoStream
SpecBridge == BridgeSpecInit /\ [][BridgeNext]_vars

DeliverySpecInit == HubInit /\ SchedQuiet /\ ManagerOneBridge /\ RouterInit /\ PublishLogInit
    /\ NoSubscribeCall /\ NoStream
SpecDelivery ==
    DeliverySpecInit /\ [][DeliveryNext]_vars /\ DeliveryFairness

FifoSpecInit ==
    HubInit /\ SchedQuiet /\ ManagerInit /\ RouterInit /\ PublishLogInit
    /\ NoSubscribeCall /\ NoStream
SpecFifo == FifoSpecInit /\ [][FifoNext]_vars

RaceSpecInit ==
    HubInit /\ SchedQuiet /\ ManagerInit /\ RouterInit /\ PublishLogInit
    /\ NoSubscribeCall /\ NoStream
SpecRace == RaceSpecInit /\ [][RaceNext]_vars

StreamSpecInit ==
    HubInit /\ SchedQuiet /\ ManagerInit /\ RouterInit /\ PublishLogInit
    /\ NoSubscribeCall /\ NoStream
SpecStream == StreamSpecInit /\ [][StreamNext]_vars /\ StreamFairness

TerminationSpecInit ==
    HubInit /\ SchedQuiet /\ ManagerOneBridge /\ RouterInit /\ PublishLogInit
    /\ NoSubscribeCall /\ NoStream
SpecTermination ==
    TerminationSpecInit /\ [][TerminationNext]_vars /\ TerminationFairness

SerializationSpecInit ==
    HubInit /\ SchedQuiet /\ ManagerOneBridge /\ RouterInit /\ PublishLogInit
    /\ NoSubscribeCall /\ NoStream
SpecSerialization == SerializationSpecInit /\ [][SerializationNext]_vars

RoutesSpecInit == HubInit /\ SchedQuiet /\ ManagerForRoutes /\ RouterInit /\ PublishLogInit
    /\ NoSubscribeCall /\ NoStream
SpecRoutes == RoutesSpecInit /\ [][RoutesNext]_vars

LifecycleSpecInit == HubInit /\ SchedQuiet /\ ManagerRegistered /\ RouterInit /\ PublishLogInit
    /\ NoSubscribeCall /\ NoStream
SpecLifecycle == LifecycleSpecInit /\ [][LifecycleNext]_vars


(***************************************************************************)
(* Properties of the hub.                                                  *)
(***************************************************************************)
\* the step is one iteration of the loop of p's Publish or Broadcast call
LoopStep(p) ==
    /\ proc[p].op \in {"publish", "broadcast"}
    /\ proc'[p] # proc[p]

\* the client that iteration visits
VisitedBy(p, c) == c \in proc[p].todo /\ c \notin proc'[p].todo

\* the filter set of c is empty or has the topic as a member
FilterAdmits(c, topic) == topics[c] = {} \/ topic \in topics[c]

\* C1: Publish enqueues an event on a client's queue only if the client is
\* live and its filter set is empty or contains the event's topic, and
\* does enqueue it whenever that holds and the queue has free capacity; a
\* client whose non-empty filter lacks the topic gets nothing enqueued.
C1_PublishFilters ==
    [][\A p \in Procs :
        (LoopStep(p) /\ proc[p].op = "publish") =>
            \A c \in ClientIds :
                /\ send'[c] # send[c] =>
                      /\ VisitedBy(p, c)
                      /\ c \in clients
                      /\ FilterAdmits(c, proc[p].e.topic)
                      /\ send'[c] = Append(send[c], Marshal(proc[p].e).data)
                /\ (VisitedBy(p, c) /\ FilterAdmits(c, proc[p].e.topic)
                      /\ Len(send[c]) < QueueCap) =>
                      send'[c] = Append(send[c], Marshal(proc[p].e).data)
                /\ (topics[c] # {} /\ proc[p].e.topic \notin topics[c]) =>
                      send'[c] = send[c]]_vars

\* a Publish call has passed a live client whose non-empty filter lacks the
\* event's topic and left its queue empty
C1_Witness ==
    \E p \in Procs, c \in ClientIds :
        /\ proc[p].op = "publish"
        /\ c \in clients \ proc[p].todo
        /\ topics[c] # {}
        /\ proc[p].e.topic \notin topics[c]
        /\ send[c] = <<>>

\* C2: a Publish or Broadcast call that reaches a client with a full queue
\* is not blocked by it and raises no error; that client's queue is left
\* as it was, and every iteration of the same call on a client that is to
\* get the event and has free capacity still enqueues it, whatever the
\* queues of the clients visited before.
C2_NonBlockingDrop ==
    /\ [](\A p \in Procs :
            proc[p].op \in {"publish", "broadcast"} =>
                /\ proc[p].todo # {}
                /\ proc[p].todo \subseteq clients
                /\ \A c \in proc[p].todo : ENABLED PublishVisit(p, c))
    /\ [][\A p \in Procs : LoopStep(p) =>
            \E c \in proc[p].todo :
                /\ proc'[p] = IF proc[p].todo = {c} THEN Idle
                              ELSE [proc[p] EXCEPT !.todo = @ \ {c}]
                /\ hubPanic' = FALSE
                /\ \A d \in ClientIds \ {c} : send'[d] = send[d]
                /\ Len(send[c]) >= QueueCap => send'[c] = send[c]
                /\ ((proc[p].op = "broadcast"
                        \/ FilterAdmits(c, proc[p].e.topic))
                      /\ Len(send[c]) < QueueCap) =>
                      send'[c] = Append(send[c], proc[p].data)]_vars

\* a call has passed one client whose queue is full and still has another
\* live client to visit
C2_Witness ==
    \E p \in Procs, c \in ClientIds, d \in ClientIds :
        /\ proc[p].op \in {"publish", "broadcast"}
        /\ c \in clients \ proc[p].todo
        /\ Len(send[c]) = QueueCap
        /\ d \in proc[p].todo
        /\ Len(send[d]) < QueueCap

\* the step is the locked section of an Unregister call by p
UnregisterStep(p) == proc[p].op = "idle" /\ proc'[p].op = "unregister"

\* C3: over any number of Unregister calls on one client, sequential or
\* concurrent, exactly one finds it present: the live set loses it once,
\* its context is cancelled once and its queue closed once, nothing
\* panics, and every other call changes nothing.
C3_IdempotentUnregister ==
    /\ [](/\ ~hubPanic
          /\ \A c \in ClientIds :
               /\ existedCalls[c] <= 1
               /\ cancelCalls[c] <= 1
               /\ sendClosed[c] <=> cancelCalls[c] = 1
               /\ existedCalls[c] = 1 <=> (c \in 1..created /\ c \notin clients))
    /\ [][\A p \in Procs :
            /\ UnregisterStep(p) =>
                 /\ proc'[p].existed <=> proc'[p].c \in clients
                 /\ clients' = clients \ {proc'[p].c}
                 /\ Cardinality(clients') =
                      Cardinality(clients) - (IF proc'[p].existed THEN 1 ELSE 0)
            /\ (proc[p].op = "unregister" /\ ~proc[p].existed
                  /\ proc'[p] # proc[p]) =>
                 UNCHANGED <<clients, created, topics, send, sendClosed,
                             closedOnce, cancelCalls, existedCalls, readers>>
            /\ (proc[p].op = "unregister" /\ proc[p].existed
                  /\ proc'[p] # proc[p]) =>
                 /\ cancelCalls'[proc[p].c] = 1
                 /\ ~sendClosed[proc[p].c]
                 /\ sendClosed'[proc[p].c]]_vars

\* a second Unregister call on a client found it absent, after the first
\* call has removed, cancelled and closed it
C3_Witness ==
    \E p \in Procs :
        /\ proc[p].op = "unregister"
        /\ ~proc[p].existed
        /\ sendClosed[proc[p].c]

\* two Unregister calls on the same client are in progress at once
C3_WitnessConcurrent ==
    \E p \in Procs, q \in Procs :
        /\ p # q
        /\ proc[p].op = "unregister" /\ proc[q].op = "unregister"
        /\ proc[p].c = proc[q].c
        /\ proc[p].existed /\ ~proc[q].existed

(***************************************************************************)
(* Properties of the scheduler.                                            *)
(***************************************************************************)
\* the step is taken by pass p, which is at pc
PassStep(p, pc) == pass[p].pc = pc /\ pass'[p] # pass[p]

\* the source of the collectSource call pass p is in
SourceOf(p) == Head(pass[p].srcs).id

\* how often a source occurs in a sequence of sources
RECURSIVE Count(_, _)
Count(id, seq) ==
    IF seq = <<>> THEN 0
    ELSE (IF Head(seq) = id THEN 1 ELSE 0) + Count(id, Tail(seq))

\* C4: when Collect returns N >= 0 records and the store operations
\* succeed, the attempt goes on to the cursor update (through the insert
\* when N > 0) without publishing, the update sets the source's
\* lastCollectedAt to the clock's reading at that moment, and the attempt
\* publishes exactly one event: collection.complete on cost.collection
\* with the record count N and the source's id.
C4_CursorAdvance ==
    [][\A p \in PassIds :
        /\ (PassStep(p, "collect") /\ pass'[p].res = "collected") =>
              /\ pass'[p].pc = IF pass'[p].n > 0 THEN "insert" ELSE "update"
              /\ pass'[p].events = <<>>
        /\ (PassStep(p, "insert") /\ pass'[p].res = "inserted") =>
              /\ pass'[p].pc = "update"
              /\ pass'[p].events = <<>>
        /\ (PassStep(p, "update") /\ pass'[p].res = "updated") =>
              /\ cursor'[SourceOf(p)] = [set |-> TRUE, t |-> now]
              /\ pass'[p].pc = "returned"
              /\ pass'[p].events =
                    <<[type |-> "collection.complete",
                       topic |-> "cost.collection",
                       source |-> SourceConf[SourceOf(p)].name,
                       payload |-> {<<"sourceId", SourceOf(p)>>,
                                    <<"records", ToString(pass[p].n)>>}]>>
       ]_vars

\* an attempt on a source last collected at T returned no records, and the
\* cursor has moved from T to the clock's reading, later than the end of
\* the attempt's window
C4_Witness ==
    \E p \in PassIds :
        /\ pass[p].pc = "returned"
        /\ pass[p].res = "updated"
        /\ pass[p].n = 0
        /\ Head(pass[p].srcs).last = At(-1)
        /\ cursor[SourceOf(p)] = At(now)
        /\ pass[p].win.end < now
        /\ Len(pass[p].events) = 1

\* C5: when Collect returns an error, the attempt ends there: nothing is
\* inserted, the cursor is not written, exactly one collection.failed
\* event is published on cost.collection, and the pass does not call
\* Collect for that source again; a pass computes its window start from
\* the cursor its listing read from the store, so the next pass starts
\* from the same T.
C5_CursorKeptOnError ==
    /\ [](\A p \in PassIds : \A id \in SourceIds :
            Count(id, pass[p].collected) <= 1)
    /\ [][\A p \in PassIds :
            /\ (PassStep(p, "collect") /\ pass'[p].res = "collectErr") =>
                  /\ cursor' = cursor
                  /\ pass'[p].stored = pass[p].stored
                  /\ pass'[p].pc = "returned"
                  /\ pass'[p].collected = pass[p].collected
                  /\ pass'[p].events =
                        <<[type |-> "collection.failed",
                           topic |-> "cost.collection",
                           source |-> SourceConf[SourceOf(p)].name,
                           payload |-> {<<"sourceId", SourceOf(p)>>,
                                        <<"error", "collect failed">>}]>>
            /\ (PassStep(p, "returned") /\ pass[p].res = "collectErr") =>
                  /\ cursor' = cursor
                  /\ pass'[p].pc = "sources"
                  /\ pass'[p].srcs = Tail(pass[p].srcs)
                  /\ pass'[p].stored = pass[p].stored
            /\ (PassStep(p, "listSources") /\ pass'[p].pc = "sources") =>
                  \A i \in 1..Len(pass'[p].srcs) :
                      pass'[p].srcs[i].last = cursor[pass'[p].srcs[i].id]
            /\ (PassStep(p, "sources") /\ pass'[p].pc = "collect") =>
                  LET last == Head(pass[p].srcs).last IN
                  last.set => pass'[p].win.start = last.t
       ]_vars

\* one pass's attempt on a source with cursor T has failed in Collect,
\* the cursor is still T, and another pass is collecting the same source
\* with a window that starts at T
C5_Witness ==
    \E p \in PassIds, q \in PassIds :
        /\ pass[p].pc = "returned"
        /\ pass[p].res = "collectErr"
        /\ Head(pass[p].srcs).last = At(-1)
        /\ cursor[SourceOf(p)] = At(-1)
        /\ pass[q].pc = "collect"
        /\ SourceOf(q) = SourceOf(p)
        /\ pass[q].win.start = -1
        /\ pass[q].win.end > pass[p].win.end

\* C6: the cursor is written only by the update step of an attempt, and
\* when that attempt's Collect returned records, only after its insert
\* has persisted them; a failed insert ends the attempt with the cursor
\* as it was.
C6_WriteBeforeCursor ==
    /\ [](\A p \in PassIds :
            (pass[p].pc = "update" /\ pass[p].n > 0) =>
                SourceOf(p) \in pass[p].stored)
    /\ [][/\ \A id \in SourceIds :
               cursor'[id] # cursor[id] =>
                  \E p \in PassIds :
                      /\ PassStep(p, "update")
                      /\ SourceOf(p) = id
                      /\ pass[p].n > 0 => id \in pass[p].stored
          /\ \A p \in PassIds :
               (PassStep(p, "insert") /\ pass'[p].res = "insertErr") =>
                  /\ cursor' = cursor
                  /\ pass'[p].pc = "returned"
                  /\ SourceOf(p) \notin pass'[p].stored
       ]_vars

\* one attempt has inserted its records and then advanced the cursor,
\* while another attempt's insert has failed
C6_Witness ==
    \E p \in PassIds, q \in PassIds :
        /\ pass[p].pc = "returned"
        /\ pass[p].res = "updated"
        /\ pass[p].n > 0
        /\ SourceOf(p) \in pass[p].stored
        /\ cursor[SourceOf(p)] = At(now)
        /\ pass[q].pc = "returned"
        /\ pass[q].res = "insertErr"

\* the types the tick of a kind of pass names; the initial pass names none
TickTypes(kind) ==
    IF kind = "csp"
    THEN {"aws_account", "azure_subscription", "gcp_project"}
    ELSE IF kind = "k8s" THEN {"kubernetes"}
    ELSE {"aws_account", "azure_subscription", "gcp_project", "kubernetes",
          "plugin"}

\* C7: a pass that has listed the projects has, when it ends, called
\* Collect exactly once for every enabled source of a matching type with a
\* registered collector in every project whose sources it could list,
\* whatever failed for the sources and projects before it.
C7_FaultIsolation ==
    \A p \in PassIds :
        /\ \A id \in SourceIds : Count(id, pass[p].collected) <= 1
        /\ (pass[p].pc = "done" /\ pass[p].listOk) =>
              \A id \in SourceIds :
                  (/\ SourceConf[id].project \notin pass[p].failed
                   /\ SourceConf[id].enabled
                   /\ SourceConf[id].type \in TickTypes(pass[p].kind)
                   /\ SourceConf[id].type \in
                         {"aws_account", "azure_subscription", "gcp_project",
                          "kubernetes"})
                  => Count(id, pass[p].collected) = 1

\* a pass has ended having collected the second project's source after an
\* error in the attempt on the first project's source, and another has
\* ended having collected it after the first project's listing failed
C7_Witness ==
    \E p \in PassIds, q \in PassIds :
        /\ pass[p].pc = "done"
        /\ "s1" \in pass[p].errs
        /\ pass[p].collected = <<"s1", "s3">>
        /\ pass[q].pc = "done"
        /\ pass[q].failed = {"p1"}
        /\ pass[q].collected = <<"s3">>

\* C8: every source a pass calls Collect for is enabled, and is of type
\* AWS, Azure or GCP on a CSP tick and of type Kubernetes on a Kubernetes
\* tick.
C8_SourceFiltering ==
    \A p \in PassIds : \A i \in 1..Len(pass[p].collected) :
        LET id == pass[p].collected[i] IN
        /\ SourceConf[id].enabled
        /\ pass[p].kind = "csp" =>
              SourceConf[id].type \in
                  {"aws_account", "azure_subscription", "gcp_project"}
        /\ pass[p].kind = "k8s" => SourceConf[id].type = "kubernetes"

\* a CSP pass has gone through both projects and called Collect for the
\* AWS source only, passing over an enabled Kubernetes source and a
\* disabled GCP source
C8_Witness ==
    \E p \in PassIds :
        /\ pass[p].kind = "csp"
        /\ pass[p].pc = "done"
        /\ pass[p].listOk
        /\ pass[p].failed = {}
        /\ pass[p].collected = <<"s1">>

(***************************************************************************)
(* Properties of the plugin manager.                                       *)
(***************************************************************************)
\* the step of g that runs the locked section of Register
RegisterStep(g) ==
    /\ mproc[g].op = "register"
    /\ mproc[g].pc = "lock"
    /\ mproc'[g].pc = "done"

\* C9: Manager.Register of a plugin whose metadata name is already
\* registered returns an error and leaves the registry as it was; a
\* Register of a new name returns nil and stores the caller's instance, the
\* metadata it fetched and a nil cancel handle.  A registration, once
\* present, keeps its instance and metadata for ever, and its cancel handle
\* is only written by InitializeAll.  Of two Register calls with one name
\* in flight together, at most one returns nil.
C9_DuplicateRejected ==
    /\ [](\A g, h \in MProcs :
            (/\ g # h
             /\ mproc[g].op = "register" /\ mproc[g].result = "nil"
             /\ mproc[h].op = "register" /\ mproc[h].result = "nil")
            => MetadataOf(mproc[g].inst).name # MetadataOf(mproc[h].inst).name)
    /\ [][\A g \in MProcs : RegisterStep(g) =>
            LET name == MetadataOf(mproc[g].inst).name IN
            IF plugins[name].present
            THEN /\ mproc'[g].result = "already registered"
                 /\ plugins' = plugins
            ELSE /\ mproc'[g].result = "nil"
                 /\ plugins' = [plugins EXCEPT ![name] =
                        [present |-> TRUE, instance |-> mproc[g].inst,
                         meta |-> MetadataOf(mproc[g].inst), cancel |-> 0]]
         ]_vars
    /\ [][\A n \in PluginNames : plugins[n].present =>
            /\ plugins'[n].present
            /\ plugins'[n].instance = plugins[n].instance
            /\ plugins'[n].meta = plugins[n].meta
            /\ plugins'[n].cancel # plugins[n].cancel =>
                   \E g \in MProcs : /\ mproc[g].op = "initializeAll"
                                     /\ n \in mproc'[g].started
                                     /\ n \notin mproc[g].started
         ]_vars

\* a Register of a second costbreakdown instance has been refused while
\* the first one, already initialized, keeps its instance, its metadata and
\* its cancel handle
C9_Witness ==
    \E g \in MProcs :
        /\ mproc[g].op = "register"
        /\ mproc[g].result = "already registered"
        /\ plugins[MetadataOf(mproc[g].inst).name].instance # mproc[g].inst
        /\ plugins[MetadataOf(mproc[g].inst).name].meta
               # MetadataOf(mproc[g].inst)
        /\ plugins[MetadataOf(mproc[g].inst).name].cancel # 0

\* two Register calls with one name are both past GetMetadata and before
\* the lock
C9_WitnessConcurrent ==
    \E g, h \in MProcs :
        /\ g # h
        /\ mproc[g].op = "register" /\ mproc[g].pc = "lock"
        /\ mproc[h].op = "register" /\ mproc[h].pc = "lock"
        /\ mproc[g].inst # mproc[h].inst
        /\ mproc[g].meta.name = mproc[h].meta.name

\* the step of g that runs one iteration of InitializeAll's loop
InitializeStep(g) ==
    /\ mproc[g].op = "initializeAll"
    /\ mproc[g].pc = "loop"
    /\ mproc'[g] # mproc[g]

\* the instance that put an event on its channel
EmitterOf(e) == CHOOSE i \in Insts : PayloadOf(i) = e.payload

\* C10: a failed Initialize does not stop InitializeAll.  When the loop of
\* an InitializeAll call is over, Initialize has been called on every
\* registered plugin, the call returns nil, and a bridge has been started
\* for exactly the plugins whose Initialize returned nil.  The iteration of
\* a failing plugin starts no bridge and leaves the registry as it was.  A
\* bridge exists only for an instance whose Initialize has succeeded, only
\* such an instance's events are ever handed to the hub, and a bridge in
\* its loop can always take the next event of its plugin's channel and
\* hands that event to the hub.
C10_InitFaultIsolation ==
    /\ [](\A g \in MProcs :
            (mproc[g].op = "initializeAll" /\ mproc[g].pc = "done") =>
                /\ mproc[g].called = Registered
                /\ mproc[g].result = "nil"
                /\ mproc[g].started = mproc[g].called \ mproc[g].failed
                /\ \A n \in mproc[g].started :
                       \E b \in 1..Len(bridges) :
                           /\ bridges[b].name = n
                           /\ bridges[b].inst = plugins[n].instance)
    /\ [](\A b \in 1..Len(bridges) : bridges[b].inst \in initOk)
    /\ [](\A k \in 1..Len(bridged) : EmitterOf(bridged[k]) \in initOk)
    /\ [](\A b \in 1..Len(bridges) :
            (/\ ~plugPanic
             /\ bridges[b].pc = "loop"
             /\ proc[Goroutine(b)].op = "idle"
             /\ pevents[bridges[b].inst] # <<>>) => ENABLED bridgeEventsRecv(b))
    /\ [](\A b \in 1..Len(bridges) :
            (~plugPanic /\ bridges[b].pc = "publish")
                => ENABLED bridgeEventsPublish(b))
    /\ [][\A g \in MProcs : InitializeStep(g) =>
            IF mproc'[g].failed # mproc[g].failed
            THEN /\ bridges' = bridges
                 /\ plugins' = plugins
                 /\ initOk' = initOk
            ELSE \E n \in mproc[g].todo :
                     /\ mproc'[g].started = mproc[g].started \cup {n}
                     /\ Len(bridges') = Len(bridges) + 1
                     /\ bridges'[Len(bridges')].inst = plugins[n].instance
                     /\ bridges'[Len(bridges')].pc = "start"
         ]_vars
    /\ [][\A i \in Insts :
            (pevents[i] # <<>> /\ pevents'[i] = Tail(pevents[i])) =>
                \E b \in 1..Len(bridges) :
                    /\ bridges[b].inst = i
                    /\ bridges[b].pc = "loop"
                    /\ bridges'[b].pc = "publish"
                    /\ bridges'[b].evt = Head(pevents[i])
         ]_vars
    /\ [][\A b \in 1..Len(bridges) :
            (bridges[b].pc = "publish" /\ bridges'[b].pc = "loop") =>
                bridged' = Append(bridged, bridges[b].evt)
         ]_vars

\* an InitializeAll call is over in which one plugin failed and the other
\* did not: the other's event has reached the hub while the failed one's
\* event still sits on its channel
C10_Witness ==
    \E g \in MProcs :
        /\ mproc[g].op = "initializeAll"
        /\ mproc[g].pc = "done"
        /\ \E a \in mproc[g].failed, b \in mproc[g].started :
               /\ pevents[plugins[a].instance] # <<>>
               /\ plugins[a].instance \notin initOk
               /\ \E k \in 1..Len(bridged) :
                      EmitterOf(bridged[k]) = plugins[b].instance

\* the events the plugins have put on their channels so far
EmittedEvents == {PluginEvent(i, k) : i \in Insts, k \in 1..emitted}

\* C11: the bridge forwards verbatim and in order: every event handed to
\* Hub.Publish is an event a plugin emitted, with its type, topic,
\* timestamp, source and payload; no event is handed over twice; and the
\* events of one plugin are handed over in the order of their emission.
C11_BridgeVerbatimInOrder ==
    /\ \A k \in 1..Len(bridged) : bridged[k] \in EmittedEvents
    /\ \A k, l \in 1..Len(bridged) : k < l => bridged[k] # bridged[l]
    /\ \A k, l \in 1..Len(bridged) :
           (k < l /\ EmitterOf(bridged[k]) = EmitterOf(bridged[l]))
               => bridged[k].timestamp < bridged[l].timestamp

\* the event of the budgets plugin with timestamp k, as Hub.Publish is to
\* get it: the same type, topic, timestamp, source and payload
BridgedEvent(k) == PluginEvent("bg1", k)

\* that event sits on the plugin's channel
OnChannel(k) ==
    \E j \in 1..Len(pevents["bg1"]) : pevents["bg1"][j] = PluginEvent("bg1", k)

\* the Publish call the bridge made for that event has returned: every
\* client of its snapshot has been visited
PublishReturned(k) ==
    /\ \E j \in 1..Len(bridged) : bridged[j] = BridgedEvent(k)
    /\ ~(proc[Goroutine(1)].op = "publish"
           /\ proc[Goroutine(1)].e = BridgedEvent(k))

\* the bridge's iteration of the Publish loop over client c, with c's
\* filter admitting the topic and c's queue having room
BridgeVisitEnqueues ==
    \A c \in ClientIds :
        (/\ LoopStep(Goroutine(1))
         /\ proc[Goroutine(1)].op = "publish"
         /\ VisitedBy(Goroutine(1), c)
         /\ FilterAdmits(c, proc[Goroutine(1)].e.topic)
         /\ Len(send[c]) < QueueCap)
            => /\ c \in clients
               /\ send'[c] = Append(send[c], Marshal(proc[Goroutine(1)].e).data)

\* C12 as stated: an event the initialized plugin has put on its channel
\* is, unless the bridge's context is cancelled, eventually published to
\* completion, and each client the Publish loop visits whose filter admits
\* the topic and whose queue has room gets it enqueued.
C12_DeliveryAsStated ==
    /\ \A k \in Stamps : OnChannel(k) ~> (PublishReturned(k) \/ initCtxDone)
    /\ [][BridgeVisitEnqueues]_vars

\* C12, amended: the same, for a bridge whose StreamEvents call returned a
\* channel: a bridge that got an error or a nil channel has returned and
\* forwards nothing.
C12_BridgedDelivery ==
    /\ \A k \in Stamps :
           OnChannel(k) ~> \/ PublishReturned(k)
                           \/ initCtxDone
                           \/ bridges[1].pc = "returned"
    /\ [][BridgeVisitEnqueues]_vars

\* the bridge has published the plugin's event to completion and a client
\* subscribed to its topic holds it in its queue
C12_Witness ==
    /\ ~initCtxDone
    /\ bridges[1].pc = "loop"
    /\ PublishReturned(1)
    /\ \E c \in clients :
           /\ topics[c] = {PluginEvent("bg1", 1).topic}
           /\ Len(send[c]) > 0
           /\ send[c][Len(send[c])] = Marshal(BridgedEvent(1)).data

\* the step is one iteration of the loop of g's ShutdownAll call
ShutdownStep(g) ==
    /\ mproc[g].op = "shutdownAll"
    /\ mproc[g].pc = "loop"
    /\ mproc'[g] # mproc[g]

\* C13: ShutdownAll calls Shutdown exactly once on every registered plugin,
\* initialized or not, after cancelling the plugin's bridge context when
\* the registration holds one; a Shutdown that returns an error does not
\* stop the loop; each Shutdown returns; and when ShutdownAll returns the
\* channel of every plugin whose Shutdown ran is closed.
C13_ShutdownFaultIsolation ==
    /\ [](\A g \in MProcs : mproc[g].op = "shutdownAll" =>
            /\ mproc[g].called \cap mproc[g].todo = {}
            /\ mproc[g].called \cup mproc[g].todo = Registered
            /\ mproc[g].failed \subseteq mproc[g].called
            /\ mproc[g].pc = "done" =>
                   /\ mproc[g].called = Registered
                   /\ \A n \in mproc[g].called :
                          peventsClosed[plugins[n].instance])
    /\ [][\A g \in MProcs : ShutdownStep(g) =>
            \E n \in mproc[g].todo :
                /\ mproc'[g].called = mproc[g].called \cup {n}
                /\ mproc'[g].todo = mproc[g].todo \ {n}
                /\ plugins[n].cancel # 0 =>
                       bridges'[plugins[n].cancel].cancelled
                /\ ~plugPanic'
                /\ peventsClosed'[plugins[n].instance]
         ]_vars

(***************************************************************************)
(* Properties of the plugins' HTTP routes.                                 *)
(***************************************************************************)
\* C14: a request with the method of a GET or POST route R of a registered
\* plugin P to /plugins/{P.name}{R.path} calls Execute on P's instance, not
\* on another plugin's, with action R.path and with params holding, for
\* each key of the query, the first of its values and nothing else; this
\* also when another plugin declares the same path.
C14_RouteDispatch ==
    httpReq # NoRequest =>
        \A n \in Registered :
            \A r \in RoutesOf(plugins[n].instance) :
                (/\ r.method \in {"GET", "POST"}
                 /\ httpReq.method = r.method
                 /\ httpReq.path = "/plugins/" \o n \o r.path)
                    => /\ executed.inst = plugins[n].instance
                       /\ executed.action = r.path
                       /\ \A k \in QueryKeys :
                              Len(httpReq.query[k]) > 0 =>
                                  <<k, httpReq.query[k][1]>> \in executed.params
                       /\ \A kv \in executed.params :
                              /\ Len(httpReq.query[kv[1]]) > 0
                              /\ kv[2] = httpReq.query[kv[1]][1]

\* budgets and costbreakdown both declare GET /status; a request for
\* budgets' one with two values of one key has reached budgets' instance
C14_Witness ==
    /\ plugins["costbreakdown"].instance = "cb2"
    /\ plugins["budgets"].instance = "bg1"
    /\ httpReq.method = "GET"
    /\ httpReq.path = "/plugins/budgets/status"
    /\ httpReq.query["namespace"] = <<"dev", "prod">>
    /\ executed.inst = "bg1"
    /\ <<"namespace", "dev">> \in executed.params

C16_BroadcastIgnoresFilters ==
    /\ [](\A p \in Procs : proc[p].op = "broadcast" =>
            /\ proc[p].todo # {}
            /\ proc[p].todo \subseteq clients)
    /\ [][\A p \in Procs :
            /\ (proc[p].op = "idle" /\ proc'[p].op = "broadcast") =>
                   proc'[p].todo = clients
            /\ (LoopStep(p) /\ proc[p].op = "broadcast") =>
                   \A c \in ClientIds :
                       /\ (VisitedBy(p, c) /\ Len(send[c]) < QueueCap) =>
                              send'[c] =
                                  Append(send[c], Marshal(proc[p].e).data)
                       /\ (VisitedBy(p, c) /\ Len(send[c]) >= QueueCap) =>
                              /\ send'[c] = send[c]
                              /\ ~hubPanic'
                              /\ proc'[p].todo = proc[p].todo \ {c}
                       /\ ~VisitedBy(p, c) => send'[c] = send[c]
         ]_vars

\* a Broadcast call has enqueued its event for a client whose filter is
\* not empty and lacks the event's topic
C16_Witness ==
    \E p \in Procs, c \in ClientIds :
        /\ proc[p].op = "broadcast"
        /\ c \in clients \ proc[p].todo
        /\ topics[c] # {}
        /\ proc[p].e.topic \notin topics[c]
        /\ send[c] # <<>>
        /\ send[c][Len(send[c])] = proc[p].data

\* what client c has been given so far, in the order of its queue: the
\* messages its write pump received, then those still queued
GivenTo(c) == dequeued[c] \o send[c]

\* C17: per client FIFO, at most once: no numbered Publish call has its
\* message twice in what a client is given; a message is the serialized
\* event of a call that was made; and of two calls of which one returned
\* before the other started, the earlier one's message, when both are
\* given to the client, comes first.
C17_PerClientFifo ==
    \A c \in ClientIds :
        /\ \A i \in 1..Len(GivenTo(c)) :
               /\ SeqOf(GivenTo(c)[i]) \in 1..Len(pubCalls)
               /\ GivenTo(c)[i] =
                      Marshal(NumberedEvent(SeqOf(GivenTo(c)[i]),
                                  pubCalls[SeqOf(GivenTo(c)[i])].topic)).data
        /\ \A i, j \in 1..Len(GivenTo(c)) :
               i < j =>
                   /\ SeqOf(GivenTo(c)[i]) # SeqOf(GivenTo(c)[j])
                   /\ SeqOf(GivenTo(c)[j])
                          \notin pubCalls[SeqOf(GivenTo(c)[i])].before

\* a client's write pump has received the message of a call that returned
\* before the next call started, and that next call's message is queued
C17_Witness ==
    \E c \in ClientIds :
        /\ Len(dequeued[c]) = 1
        /\ Len(send[c]) = 1
        /\ SeqOf(dequeued[c][1]) = 1
        /\ SeqOf(send[c][1]) = 2
        /\ 1 \in pubCalls[2].before

(***************************************************************************)
(* Further properties of the scheduler.                                    *)
(***************************************************************************)
\* C18: the attempt that calls Collect when the clock reads now does so
\* with a window whose End is now and whose Start is the source's
\* lastCollectedAt when that is set and now - 24h when it is nil; the
\* window is the same until Collect returns.
C18_CollectionWindow ==
    [][\A p \in PassIds :
        /\ (PassStep(p, "sources") /\ pass'[p].pc = "collect") =>
               LET src == Head(pass[p].srcs) IN
               /\ pass'[p].win.end = now
               /\ src.last.set => pass'[p].win.start = src.last.t
               /\ ~src.last.set => pass'[p].win.start = now - 24
        /\ (pass[p].pc = "collect" /\ pass'[p].pc = "collect") =>
               pass'[p].win = pass[p].win
      ]_vars

\* Collect is running for a source never collected, with the window of the
\* last 24 hours, and for a source whose cursor is set, with the window
\* from that cursor on
C18_Witness ==
    \E p, q \in PassIds :
        /\ pass[p].pc = "collect"
        /\ ~Head(pass[p].srcs).last.set
        /\ pass[p].win = [start |-> pass[p].win.end - 24, end |-> pass[p].win.end]
        /\ pass[q].pc = "collect"
        /\ Head(pass[q].srcs).last.set
        /\ pass[q].win.start = Head(pass[q].srcs).last.t
        /\ pass[q].win.end > pass[q].win.start

\* C19: every attempt on an enabled source (a collectSource call that
\* calls Collect) publishes exactly one event, of type collection.failed
\* or collection.complete, on the topic cost.collection, whichever way the
\* attempt goes: none while it runs, one when it has returned.
C19_OneOutcomeEvent ==
    \A p \in PassIds :
        /\ pass[p].pc \in {"collect", "insert", "update"} =>
               pass[p].events = <<>>
        /\ pass[p].pc = "returned" =>
               /\ Len(pass[p].events) = 1
               /\ pass[p].events[1].type
                      \in {"collection.failed", "collection.complete"}
               /\ pass[p].events[1].topic = "cost.collection"

\* C20: no iteration of a Publish loop reads a client's topic set, in the
\* filter check, while a Subscribe call of the client's read pump is
\* writing it.
C20_SubscribeRaceFree ==
    [][\A p \in Procs, c \in ClientIds :
        (proc[p].op = "publish" /\ proc'[p] # proc[p] /\ VisitedBy(p, c))
            => writing[c] = {}
      ]_vars

(***************************************************************************)
(* Properties of lifecycles and of termination.                            *)
(***************************************************************************)
\* the bridge goroutines started for the plugin registered under a name
BridgesOf(name) == {b \in 1..Len(bridges) : bridges[b].name = name}

\* C21: no re-initialization.  Over any sequence of manager calls, an
\* iteration of InitializeAll's loop calls Initialize only on an instance
\* that has not been initialized and has not been shut down, and at most
\* one bridge goroutine is ever started for a plugin.
C21_NoReinitialization ==
    /\ [](\A n \in PluginNames : Cardinality(BridgesOf(n)) <= 1)
    /\ [][\A g \in MProcs : InitializeStep(g) =>
            \A n \in mproc[g].todo \ mproc'[g].todo :
                /\ plugins[n].instance \notin initOk
                /\ ~peventsClosed[plugins[n].instance]
         ]_vars

\* the client is destroyed: out of the hub's live set, its queue closed
Destroyed(c) == c \notin clients /\ sendClosed[c]

\* C22: once the read pump of a client has returned on a read error, the
\* client is eventually destroyed, whether or not an event is enqueued for
\* it afterwards.
C22_TeardownOnDisconnect ==
    \A c \in ClientIds : (stream[c].reader = "returned") ~> Destroyed(c)

\* C23: once the context of the bridge is cancelled (by ShutdownAll or
\* through the context given to InitializeAll) or the plugin's channel is
\* closed, the bridge goroutine eventually returns, unless the process has
\* ended in a panic before; a bridge that has returned stays returned and
\* hands no event to the hub; and every Publish call of the bridge returns.
C23_BridgeTerminates ==
    /\ (bridges[1].cancelled \/ initCtxDone \/ peventsClosed["bg1"])
           ~> (bridges[1].pc = "returned" \/ plugPanic)
    /\ (proc[Goroutine(1)].op = "publish")
           ~> (proc[Goroutine(1)].op = "idle")
    /\ [][bridges[1].pc = "returned" =>
            /\ bridges'[1].pc = "returned"
            /\ bridged' = bridged
            /\ proc'[Goroutine(1)] = Idle
         ]_vars

\* the bridge has handed an event to the hub and has returned after
\* ShutdownAll cancelled its context
C23_Witness ==
    /\ bridges[1].pc = "returned"
    /\ bridges[1].cancelled
    /\ ~initCtxDone
    /\ Len(bridged) > 0
    /\ ~plugPanic

\* C24: once the context passed to Start is cancelled, the loop of Start
\* eventually returns; once it has returned it stays returned and no pass
\* is launched any more.
C24_SchedulerCancellation ==
    /\ (ctxDone /\ loop = "looping") ~> (loop = "returned")
    /\ [][loop = "returned" =>
            /\ loop' = "returned"
            /\ launched' = launched
            /\ \A p \in PassIds : pass[p].kind = "none" =>
                                      pass'[p].kind = "none"
         ]_vars

\* the loop has launched a pass on a tick and has returned on cancellation
C24_Witness ==
    /\ loop = "returned"
    /\ ctxDone
    /\ launched = 2
    /\ pass[2].kind \in {"csp", "k8s"}

\* the types with a cadence of their own
CadenceTypes ==
    {"aws_account", "azure_subscription", "gcp_project", "kubernetes"}

\* the passes are launched one at a time; the first is launched by the
\* Start call that sets the running flag and is the initial pass, and
\* every later one is launched by a tick
InitialPassFirst ==
    [][launched' # launched =>
          /\ launched' = launched + 1
          /\ (launched = 0) <=> (~running /\ running')
          /\ (launched = 0) <=> (pass'[launched'].kind = "all")
          /\ (launched # 0) <=> (pass'[launched'].kind \in {"csp", "k8s"})
      ]_vars

\* C25 as stated: each effective Start launches exactly one initial pass,
\* before any pass of a tick, and the initial pass, when it ends, has
\* called Collect on every enabled source of type AWS, Azure, GCP or
\* Kubernetes.
C25_InitialFullPassAsStated ==
    /\ InitialPassFirst
    /\ [](\A p \in PassIds :
            (pass[p].kind = "all" /\ pass[p].pc = "done") =>
                \A id \in SourceIds :
                    (SourceConf[id].enabled
                        /\ SourceConf[id].type \in CadenceTypes)
                    => Count(id, pass[p].collected) = 1)

\* C25, amended: each effective Start launches exactly one initial pass,
\* before any pass of a tick, and the initial pass, when it ends having
\* listed the projects, has called Collect on every enabled source of type
\* AWS, Azure, GCP or Kubernetes of every project whose sources it could
\* list.
C25_InitialFullPass ==
    /\ InitialPassFirst
    /\ [](\A p \in PassIds :
            (pass[p].kind = "all" /\ pass[p].pc = "done" /\ pass[p].listOk)
            => \A id \in SourceIds :
                    (/\ SourceConf[id].project \notin pass[p].failed
                     /\ SourceConf[id].enabled
                     /\ SourceConf[id].type \in CadenceTypes)
                    => Count(id, pass[p].collected) = 1)

\* the initial pass has ended having called Collect on the AWS source and
\* on the Kubernetes source, and a tick has launched a pass after it
C25_Witness ==
    /\ pass[1].kind = "all"
    /\ pass[1].pc = "done"
    /\ pass[1].listOk
    /\ pass[1].failed = {}
    /\ pass[1].collected = <<"s1", "s3">>
    /\ launched = 2
    /\ pass[2].kind \in {"csp", "k8s"}

(***************************************************************************)
(* Further properties of the hub.                                          *)
(***************************************************************************)
\* the clients an Unregister call has found in the live set
Unregistered == {c \in ClientIds : existedCalls[c] > 0}

\* C26: a Register call adds exactly one client, new to the hub, with an
\* empty topic filter (so that every topic passes), an empty open queue and
\* a live context; and after any interleaving of Register and Unregister
\* calls Hub.Len is the number of clients registered and not unregistered.
C26_MembershipAccounting ==
    /\ [](/\ HubLen = created - Cardinality(Unregistered)
          /\ clients = (1..created) \ Unregistered
          /\ \A c \in clients : topics[c] = {} =>
                 \A t \in Topics : subscribedTo(c, t))
    /\ [][created' # created =>
            /\ created' = created + 1
            /\ created' \notin clients
            /\ clients' = clients \cup {created'}
            /\ topics'[created'] = {}
            /\ send'[created'] = <<>>
            /\ ~sendClosed'[created']
            /\ cancelCalls'[created'] = 0
            /\ \A c \in clients :
                   topics'[c] = topics[c] /\ send'[c] = send[c]
         ]_vars

\* two clients were registered, the first was unregistered, and Hub.Len
\* is one
C26_Witness ==
    /\ created = 2
    /\ Unregistered = {1}
    /\ clients = {2}
    /\ HubLen = 1

\* C27: an event that cannot be serialized is delivered to nobody.  No
\* Publish or Broadcast call enters its loop over the clients with such an
\* event, no queue ever holds one, and nothing panics; the Publish call of
\* a bridge on a plugin event with invalid payload bytes is never blocked,
\* returns at once with every queue as it was, takes no lock, and leaves
\* the bridge in its loop.
C27_SerializationFailure ==
    /\ [](/\ ~hubPanic
          /\ ~plugPanic
          /\ \A p \in Procs : proc[p].e.payload # "bad"
          /\ \A c \in ClientIds : \A k \in 1..Len(send[c]) :
                 send[c][k][4] # "bad"
          /\ bridges[1].pc = "publish" => ENABLED bridgeEventsPublish(1))
    /\ [][(bridges[1].pc = "publish" /\ bridges[1].evt.payload = "bad"
              /\ bridges'[1] # bridges[1]) =>
            /\ send' = send
            /\ proc' = proc
            /\ readers' = readers
            /\ bridges'[1].pc = "loop"
         ]_vars

\* the bridge has handed an event with invalid payload bytes to Publish
\* and is back in its loop, and the one live client's queue is empty
C27_Witness ==
    /\ Len(bridged) = 1
    /\ bridged[1].payload = "bad"
    /\ bridges[1].pc = "loop"
    /\ clients = {1}
    /\ send[1] = <<>>
    /\ proc = [p \in Procs |-> Idle]

(***************************************************************************)
(* Further properties of the plugins' HTTP routes.                         *)
(***************************************************************************)
\* C28: before MountRoutes the router holds no plugin handler; after it,
\* the handlers are, by method and pattern, exactly the GET and POST
\* routes the registered plugins declare, each under /plugins/{name}, and
\* each handler calls the declaring plugin's instance with the route's
\* path as the action.  A route declared with another method has no
\* handler, and no handler is on a route no plugin declared.
C28_MountedRouteSet ==
    /\ mountCalls = 0 => router = {}
    /\ mountCalls > 0 =>
          /\ {<<h.method, h.pattern>> : h \in router} =
                UNION {{<<r.method, "/plugins/" \o n \o r.path>> :
                            r \in {q \in RoutesOf(plugins[n].instance) :
                                      q.method \in {"GET", "POST"}}} :
                       n \in Registered}
          /\ \A h \in router :
                \E n \in Registered :
                    /\ h.inst = plugins[n].instance
                    /\ h.pattern = "/plugins/" \o n \o h.action
                    /\ [method |-> h.method, path |-> h.action]
                          \in RoutesOf(plugins[n].instance)

\* MountRoutes has run over budgets and a costbreakdown that declares
\* GET /status, POST /status and DELETE /summary: four handlers, none for
\* the DELETE route
C28_Witness ==
    /\ mountCalls = 1
    /\ plugins["costbreakdown"].instance = "cb2"
    /\ plugins["budgets"].instance = "bg1"
    /\ Cardinality(router) = 4
    /\ \A h \in router : h.pattern # "/plugins/costbreakdown/summary"

\* C29: under every interleaving of Publish and Broadcast calls with
\* Unregister calls, nothing panics, every client a call has still to visit
\* is in the live set with its queue open, and from the moment Unregister
\* has taken a client out of the live set no message is added to that
\* client's queue.
C29_NoEnqueueOnClosed ==
    /\ [](/\ ~hubPanic
          /\ \A p \in Procs : \A c \in proc[p].todo :
                 c \in clients /\ ~sendClosed[c])
    /\ [][\A c \in 1..created :
            c \notin clients => Len(send'[c]) <= Len(send[c])]_vars

\* an Unregister call on the first client has returned, and a Publish or
\* Broadcast call is in its loop with the second client only to visit
C29_Witness ==
    \E p \in Procs :
        /\ proc[p].op \in {"publish", "broadcast"}
        /\ proc[p].todo = {2}
        /\ clients = {2}
        /\ sendClosed[1]
        /\ send[1] = <<>>

(***************************************************************************)
(* Further properties of the scheduler.                                    *)
(***************************************************************************)
\* C30: the lastCollectedAt a successful attempt writes is not later than
\* the End of the window the attempt gave to Collect, so that the window of
\* the next attempt begins where this one ended.
C30_CursorNoGap ==
    [][\A p \in PassIds :
        (PassStep(p, "update") /\ pass'[p].res = "updated") =>
            /\ cursor'[SourceOf(p)].set
            /\ cursor'[SourceOf(p)].t <= pass[p].win.end
      ]_vars

\* the pass is in a collectSource call that has found a collector and has
\* not yet published its outcome
InAttempt(p) == pass[p].pc \in {"collect", "insert", "update"}

\* C31: no two passes (the initial pass, a CSP tick pass, a Kubernetes tick
\* pass) are at the same time in a collection attempt on one source.
C31_NoConcurrentCollection ==
    \A p \in PassIds, q \in PassIds :
        (p # q /\ InAttempt(p) /\ InAttempt(q)) => SourceOf(p) # SourceOf(q)

\* C32: the lastCollectedAt stored for a source never decreases: every
\* write of a set cursor puts a time greater than or equal to the one it
\* overwrites, while the clock never goes back.
C32_MonotoneCursor ==
    [][/\ now' >= now
       /\ \A id \in SourceIds :
              cursor[id].set =>
                  cursor'[id].set /\ cursor'[id].t >= cursor[id].t
      ]_vars

\* the Start calls that got past the running flag
Effective == {c \in StartCalls : starts[c] \in {"entered", "looping", "stopped"}}

\* C33: whatever the number and the interleaving of Start calls on one
\* Scheduler, at most one of them gets past the running flag, so at most
\* one loop is active and at most one initial pass is launched; a call
\* that finds the flag set returns at once and changes nothing, also after
\* the loop of the first call has returned.
C33_SingleSchedulerLoop ==
    /\ [](/\ Cardinality(Effective) <= 1
          /\ running <=> Effective # {})
    /\ [][/\ \A p \in PassIds :
                (pass[p].kind # "all" /\ pass'[p].kind = "all") =>
                    launched = 0
          /\ \A c \in StartCalls :
                (running /\ starts[c] = "none" /\ starts'[c] # "none") =>
                    /\ starts'[c] = "returned"
                    /\ UNCHANGED <<running, launched, pass, loop>>
         ]_vars

\* one Start call has launched the initial pass and a tick pass and its
\* loop has returned on cancellation; the other, made after that, has
\* returned at once
C33_Witness ==
    /\ starts[1] = "stopped"
    /\ starts[2] = "returned"
    /\ launched = 2
    /\ ctxDone

(***************************************************************************)
(* Further properties of the plugins.                                      *)
(***************************************************************************)
\* C34: under every interleaving of a poll cycle started by Initialize
\* with ShutdownAll, the poll loop of a built-in plugin never executes its
\* send on the plugin's channel once Shutdown has closed that channel.
C34_NoSendAfterClose ==
    [][\A i \in Insts :
        (poll[i] = "send" /\ poll'[i] # "send") => ~peventsClosed[i]
      ]_vars

\* C35: a mounted handler calls Execute only on a plugin whose Initialize
\* has succeeded and whose Shutdown has not been called.
C35_ExecuteOnlyInitialized ==
    [][(executed' # executed /\ executed'.inst # "") =>
          /\ executed'.inst \in initOk
          /\ ~peventsClosed[executed'.inst]
      ]_vars

\* the bridges whose StreamEvents call returned an error or a nil channel
Channelless ==
    {b \in 1..Len(bridges) : bridges[b].chan \in {"err", "nil"}}

\* C36: a bridge whose StreamEvents call returns an error or a nil
\* channel has returned as soon as that call is over and stays returned,
\* StreamEvents is called once per bridge and never again, no event of
\* that plugin is ever handed to the hub, and the step touches no other
\* bridge, no channel and nothing of the hub.
C36_BridgeWithoutChannel ==
    /\ [](\A b \in Channelless :
             /\ bridges[b].pc = "returned"
             /\ \A k \in 1..Len(bridged) :
                    bridged[k].payload # PayloadOf(bridges[b].inst))
    /\ [][/\ Len(bridges') >= Len(bridges)
          /\ \A b \in 1..Len(bridges) :
                /\ bridges[b].chan # "none" =>
                       bridges'[b].chan = bridges[b].chan
                /\ (bridges[b].chan = "none"
                       /\ bridges'[b].chan \in {"err", "nil"}) =>
                      /\ \A c \in (1..Len(bridges)) \ {b} :
                             bridges'[c] = bridges[c]
                      /\ UNCHANGED <<pevents, peventsClosed, bridged,
                                     plugins, hubVars>>
         ]_vars

\* the bridge of one plugin has returned without a channel, nothing of
\* that plugin has reached the hub although it has emitted, and the
\* bridge of the other plugin has handed an event to the hub
C36_Witness ==
    \E b \in Channelless :
        /\ pevents[bridges[b].inst] # <<>>
        /\ \E c \in (1..Len(bridges)) \ {b} :
               /\ bridges[c].chan = "chan"
               /\ \E k \in 1..Len(bridged) :
                      bridged[k].payload = PayloadOf(bridges[c].inst)

(***************************************************************************)
(* Further properties of the passes.                                       *)
(***************************************************************************)
\* C37: when a pass reaches an enabled source of a type it collects for
\* which the registry has no collector, the attempt changes nothing: no
\* Collect call, nothing stored, no cursor written, no event; the pass
\* goes on with the source after it.
C37_NoCollectorNoEffect ==
    /\ [](\A p \in PassIds : \A id \in pass[p].nocoll :
             /\ Count(id, pass[p].collected) = 0
             /\ id \notin pass[p].stored
             /\ id \notin pass[p].errs)
    /\ [][\A p \in PassIds :
            (/\ PassStep(p, "sources")
             /\ pass[p].srcs # <<>>
             /\ SourceConf[SourceOf(p)].enabled
             /\ SourceConf[SourceOf(p)].type \in TickTypes(pass[p].kind)
             /\ SourceConf[SourceOf(p)].type \notin CadenceTypes) =>
                /\ pass'[p].pc = "sources"
                /\ pass'[p].srcs = Tail(pass[p].srcs)
                /\ pass'[p].collected = pass[p].collected
                /\ pass'[p].stored = pass[p].stored
                /\ pass'[p].events = <<>>
                /\ pass'[p].win = NoWindow
                /\ cursor' = cursor
         ]_vars

\* the initial pass has ended: it has passed over the source of type
\* plugin, whose cursor is still nil, and has collected the sources before
\* it
C37_Witness ==
    \E p \in PassIds :
        /\ pass[p].pc = "done"
        /\ pass[p].nocoll = {"s4"}
        /\ pass[p].collected = <<"s1", "s3">>
        /\ cursor["s4"] = Nil

\* C38: when Collect and the insert have succeeded and the cursor update
\* fails, the attempt still publishes one collection.complete event with
\* the record count and returns, the stored cursor keeps its value and the
\* persisted records stay; a pass that lists the source afterwards reads
\* that old cursor and its window starts there again.
C38_BestEffortCursorUpdate ==
    [][\A p \in PassIds :
        /\ (PassStep(p, "update") /\ pass'[p].res = "updateErr") =>
              /\ cursor' = cursor
              /\ pass'[p].stored = pass[p].stored
              /\ pass[p].n > 0 => SourceOf(p) \in pass[p].stored
              /\ pass'[p].pc = "returned"
              /\ pass'[p].events =
                    <<[type |-> "collection.complete",
                       topic |-> "cost.collection",
                       source |-> SourceConf[SourceOf(p)].name,
                       payload |-> {<<"sourceId", SourceOf(p)>>,
                                    <<"records", ToString(pass[p].n)>>}]>>
        /\ (PassStep(p, "returned") /\ pass[p].res = "updateErr") =>
              /\ cursor' = cursor
              /\ pass'[p].pc = "sources"
        /\ (PassStep(p, "listSources") /\ pass'[p].pc = "sources") =>
              \A i \in 1..Len(pass'[p].srcs) :
                  pass'[p].srcs[i].last = cursor[pass'[p].srcs[i].id]
        /\ (PassStep(p, "sources") /\ pass'[p].pc = "collect") =>
              LET last == Head(pass[p].srcs).last IN
              last.set => pass'[p].win.start = last.t
      ]_vars

\* a pass has stored the records of the Kubernetes source, failed to
\* update its cursor and ended; the cursor is what it was, and another
\* pass is collecting that source from that cursor over a window that
\* covers the first one
C38_Witness ==
    \E p \in PassIds, q \in PassIds :
        /\ pass[p].pc = "done"
        /\ "s3" \in pass[p].stored
        /\ "s3" \in pass[p].errs
        /\ cursor["s3"] = At(-1)
        /\ pass[q].pc = "collect"
        /\ SourceOf(q) = "s3"
        /\ pass[q].win.start = -1
        /\ pass[q].win.end = 1

(***************************************************************************)
(* Further properties of the topic filter.                                 *)
(***************************************************************************)
\* C39: a client's filter only grows.  No step removes a topic from it, so
\* a filter that is non-empty stays non-empty and the client does not
\* return to receiving every topic; a step that changes a filter adds
\* topics to the filter of one client and leaves every queue, with the
\* events already in it, and the live set as they were.
C39_SubscribeOnlyGrows ==
    [][/\ \A c \in ClientIds :
              /\ topics[c] \subseteq topics'[c]
              /\ topics[c] # {} => topics'[c] # {}
       /\ topics' # topics =>
              /\ Cardinality({c \in ClientIds : topics'[c] # topics[c]}) = 1
              /\ UNCHANGED <<send, sendClosed, clients, created>>
      ]_vars

\* a client has subscribed to one topic, and its queue still holds an event
\* of the other topic, enqueued before
C39_Witness ==
    \E c \in clients :
        /\ topics[c] = {"budget.warning"}
        /\ Len(send[c]) > 0
        /\ MsgTopic(send[c][1]) = "cost.collection"

(***************************************************************************)
(* Further properties of the registry.                                     *)
(***************************************************************************)
\* C40: ListPlugins returns one metadata entry per registered name, the
\* metadata fetched at that registration; an entry is added only by a
\* Register call that returns nil, and no call (ShutdownAll, an
\* InitializeAll with a failed Initialize, MountRoutes, a Register refused
\* or failed on GetMetadata) removes, changes or adds one.
C40_RegistryPermanence ==
    /\ [](/\ Cardinality(ListPlugins) = Cardinality(Registered)
          /\ \A n \in Registered :
                 \E m \in ListPlugins :
                     m.name = n /\ m = MetadataOf(plugins[n].instance))
    /\ [][/\ ListPlugins \subseteq ListPlugins'
          /\ ListPlugins' # ListPlugins =>
                \E g \in MProcs :
                    /\ RegisterStep(g)
                    /\ mproc'[g].result = "nil"
                    /\ mproc[g].meta = MetadataOf(mproc[g].inst)
                    /\ mproc[g].meta \notin ListPlugins
                    /\ ListPlugins' = ListPlugins \cup {mproc[g].meta}
         ]_vars

\* both names are registered, the routes are mounted, an InitializeAll
\* call has met a failed Initialize, a ShutdownAll call has shut a plugin
\* down, a Register call has been refused, and ListPlugins has both
\* entries
C40_Witness ==
    /\ Cardinality(ListPlugins) = 2
    /\ mountCalls = 1
    /\ initAllStarted = 1
    /\ \E n \in Registered : plugins[n].instance \notin initOk
    /\ \E i \in Insts : peventsClosed[i]
    /\ \E g \in MProcs :
           /\ mproc[g].op = "register"
           /\ mproc[g].result \in {"already registered", "metadata error"}

====
